---- MODULE Spec2Model ----
(***************************************************************************)
(* Location extraction and map-link construction of the bank-statement     *)
(* categoriser (src/data_processing/location_processor.py), the CSV reader *)
(* with its encoding fallback (src/data_processing/data_imports.py) and    *)
(* the workflow of src/main.py, and the categoriser: the keyword lookup of *)
(* src/data_processing/mappings.py, clean_date and process_dataframe of    *)
(* src/data_processing/data_core.py and the Expense class of               *)
(* src/data_processing/data_loader.py.                                     *)
(*                                                                         *)
(* A Python str is modelled as a sequence of code points, each code point  *)
(* a one-character string ("a", " ", ":") or, outside ASCII, its "U+XXXX"  *)
(* name.  Regular expressions are modelled by scanners that follow the     *)
(* leftmost-match, greedy/lazy semantics of Python's re module.            *)
(***************************************************************************)
EXTENDS Integers, Sequences, FiniteSets, TLC

(***************************************************************************)
(* Code points and character classes                                       *)
(***************************************************************************)
LowerLetters ==
    { "a", "b", "c", "d", "e", "f", "g", "h", "i", "j", "k", "l", "m",
      "n", "o", "p", "q", "r", "s", "t", "u", "v", "w", "x", "y", "z" }

UpperLetters ==
    { "A", "B", "C", "D", "E", "F", "G", "H", "I", "J", "K", "L", "M",
      "N", "O", "P", "Q", "R", "S", "T", "U", "V", "W", "X", "Y", "Z" }

\* a-acute, o-acute, a-ogonek, e-ogonek, l-stroke, n-acute, s-acute,
\* z-acute, z-dot: the non-ASCII letters of the location tables.
LowerAccented ==
    { "U+00E1", "U+00F3", "U+0105", "U+0119", "U+0142", "U+0144",
      "U+015B", "U+017A", "U+017C" }

UpperAccented ==
    { "U+00C1", "U+00D3", "U+0104", "U+0118", "U+0141", "U+0143",
      "U+015A", "U+0179", "U+017B" }

Digits == { "0", "1", "2", "3", "4", "5", "6", "7", "8", "9" }

\* str.lower() / re.IGNORECASE folding of one code point.
LowerTable ==
    ("A" :> "a") @@ ("B" :> "b") @@ ("C" :> "c") @@ ("D" :> "d") @@
    ("E" :> "e") @@ ("F" :> "f") @@ ("G" :> "g") @@ ("H" :> "h") @@
    ("I" :> "i") @@ ("J" :> "j") @@ ("K" :> "k") @@ ("L" :> "l") @@
    ("M" :> "m") @@ ("N" :> "n") @@ ("O" :> "o") @@ ("P" :> "p") @@
    ("Q" :> "q") @@ ("R" :> "r") @@ ("S" :> "s") @@ ("T" :> "t") @@
    ("U" :> "u") @@ ("V" :> "v") @@ ("W" :> "w") @@ ("X" :> "x") @@
    ("Y" :> "y") @@ ("Z" :> "z") @@
    ("U+00C1" :> "U+00E1") @@ ("U+00D3" :> "U+00F3") @@
    ("U+0104" :> "U+0105") @@ ("U+0118" :> "U+0119") @@
    ("U+0141" :> "U+0142") @@ ("U+0143" :> "U+0144") @@
    ("U+015A" :> "U+015B") @@ ("U+0179" :> "U+017A") @@
    ("U+017B" :> "U+017C") @@
    ("U+00C9" :> "U+00E9") @@ ("U+00D6" :> "U+00F6")

LowerChar(c) == IF c \in DOMAIN LowerTable THEN LowerTable[c] ELSE c

\* \s of the re module (the whitespace str.strip() removes).
IsSpace(c) == c \in { " ", "\t" }

\* \d
IsDigit(c) == c \in Digits

\* \w (Unicode): letters, digits and the underscore.
IsWord(c) ==
    c \in LowerLetters \cup UpperLetters \cup Digits \cup { "_" }
          \cup LowerAccented \cup UpperAccented

\* The least element of a non-empty set of indices.
Least(S) == CHOOSE x \in S : \A y \in S : x <= y

\* The least element of S, 0 when S is empty.
LeastOrZero(S) == IF S = {} THEN 0 ELSE Least(S)

\* The greatest element of S, 0 when S is empty.
GreatestOrZero(S) ==
    IF S = {} THEN 0 ELSE CHOOSE x \in S : \A y \in S : y <= x

(***************************************************************************)
(* str methods                                                             *)
(***************************************************************************)
\* s.lower()
Lower(s) == [i \in 1..Len(s) |-> LowerChar(s[i])]

\* s[i:].startswith(pat), i counted from 1.
MatchAt(s, i, pat) ==
    /\ i >= 1
    /\ i + Len(pat) - 1 <= Len(s)
    /\ \A k \in 1..Len(pat) : s[i + k - 1] = pat[k]

\* The same under re.IGNORECASE; pat is lower case.
MatchAtCI(s, i, pat) ==
    /\ i >= 1
    /\ i + Len(pat) - 1 <= Len(s)
    /\ \A k \in 1..Len(pat) : LowerChar(s[i + k - 1]) = pat[k]

\* s.find(pat, from): the least index >= from where pat occurs, 0 if none.
Find(s, pat, from) ==
    LeastOrZero({ i \in from..Len(s) : MatchAt(s, i, pat) })

\* pat in s
Contains(s, pat) == Find(s, pat, 1) # 0

\* s[from:], from counted from 1.
From(s, from) == SubSeq(s, from, Len(s))

\* The first index >= i that holds no whitespace (Len(s) + 1 if none):
\* where a greedy \s* started at i ends.
RECURSIVE SkipSpaces(_, _)
SkipSpaces(s, i) ==
    IF i <= Len(s) /\ IsSpace(s[i]) THEN SkipSpaces(s, i + 1) ELSE i

\* The first index >= i that holds no \w character.
RECURSIVE SkipWord(_, _)
SkipWord(s, i) ==
    IF i <= Len(s) /\ IsWord(s[i]) THEN SkipWord(s, i + 1) ELSE i

\* s.lstrip(chars) / s.rstrip(chars) / s.strip(chars)
RECURSIVE LStripSet(_, _)
LStripSet(s, chars) ==
    IF s # <<>> /\ Head(s) \in chars THEN LStripSet(Tail(s), chars) ELSE s

RECURSIVE RStripSet(_, _)
RStripSet(s, chars) ==
    IF s # <<>> /\ s[Len(s)] \in chars
    THEN RStripSet(SubSeq(s, 1, Len(s) - 1), chars)
    ELSE s

StripSet(s, chars) == RStripSet(LStripSet(s, chars), chars)

\* s.strip(): whitespace removed at both ends.
Strip(s) == StripSet(s, { " ", "\t" })

\* s.strip(' ,')
StripSpaceComma(s) == StripSet(s, { " ", "," })

\* s.split(sep): the pieces between the occurrences of sep, taken left to
\* right without overlap.
RECURSIVE Split(_, _)
Split(s, sep) ==
    LET i == Find(s, sep, 1)
    IN  IF i = 0 THEN << s >>
        ELSE << SubSeq(s, 1, i - 1) >> \o Split(From(s, i + Len(sep)), sep)

\* s.replace(old, new): every occurrence, left to right without overlap.
RECURSIVE Replace(_, _, _)
Replace(s, old, new) ==
    LET i == Find(s, old, 1)
    IN  IF i = 0 THEN s
        ELSE SubSeq(s, 1, i - 1) \o new
                 \o Replace(From(s, i + Len(old)), old, new)

\* any(token in s for token in tokens)
ContainsAny(s, tokens) ==
    \E k \in 1..Len(tokens) : Contains(s, tokens[k])

(***************************************************************************)
(* Module-level tables                                                     *)
(***************************************************************************)
PREFIXES_TO_REMOVE ==
    << <<"m", "i", "a", "s", "t", "o", " ", ":">>,
       <<"m", "i", "a", "s", "t", "o", ":">>,
       <<"a", "d", "r", "e", "s", " ", ":">>,
       <<"a", "d", "r", "e", "s", ":">>,
       <<"l", "o", "k", "a", "l", "i", "z", "a", "c", "j", "a", " ", ":">>,
       <<"l", "o", "k", "a", "l", "i", "z", "a", "c", "j", "a", ":">> >>

POLISH_REPLACEMENTS ==
    << <<<<"l", "o", "d", "z">>, <<"U+0142", "U+00F3", "d", "U+017A">>>>,
       <<<<"k", "r", "a", "k", "o", "w">>, <<"k", "r", "a", "k", "U+00F3", "w">>>>,
       <<<<"p", "o", "z", "n", "a", "n">>, <<"p", "o", "z", "n", "a", "U+0144">>>>,
       <<<<"w", "r", "o", "c", "l", "a", "w">>, <<"w", "r", "o", "c", "U+0142", "a", "w">>>>,
       <<<<"g", "d", "a", "n", "s", "k">>, <<"g", "d", "a", "U+0144", "s", "k">>>>,
       <<<<"c", "z", "e", "s", "t", "o", "c", "h", "o", "w", "a">>, <<"c", "z", "U+0119", "s", "t", "o", "c", "h", "o", "w", "a">>>>,
       <<<<"t", "o", "r", "u", "n">>, <<"t", "o", "r", "u", "U+0144">>>>,
       <<<<"b", "i", "a", "l", "y", "s", "t", "o", "k">>, <<"b", "i", "a", "U+0142", "y", "s", "t", "o", "k">>>>,
       <<<<"r", "z", "e", "s", "z", "o", "w">>, <<"r", "z", "e", "s", "z", "U+00F3", "w">>>>,
       <<<<"p", "i", "o", "t", "r", "k", "o", "w">>, <<"p", "i", "o", "t", "r", "k", "U+00F3", "w">>>>,
       <<<<"w", "a", "l", "b", "r", "z", "y", "c", "h">>, <<"w", "a", "U+0142", "b", "r", "z", "y", "c", "h">>>>,
       <<<<"w", "l", "o", "c", "l", "a", "w", "e", "k">>, <<"w", "U+0142", "o", "c", "U+0142", "a", "w", "e", "k">>>>,
       <<<<"j", "e", "l", "e", "n", "i", "a", " ", "g", "o", "r", "a">>, <<"j", "e", "l", "e", "n", "i", "a", " ", "g", "U+00F3", "r", "a">>>>,
       <<<<"n", "o", "w", "y", " ", "s", "a", "c", "z">>, <<"n", "o", "w", "y", " ", "s", "U+0105", "c", "z">>>>,
       <<<<"z", "i", "e", "l", "o", "n", "a", " ", "g", "o", "r", "a">>, <<"z", "i", "e", "l", "o", "n", "a", " ", "g", "U+00F3", "r", "a">>>>,
       <<<<"k", "o", "s", "c", "i", "u", "s", "z", "k", "i">>, <<"k", "o", "U+015B", "c", "i", "u", "s", "z", "k", "i">>>>,
       <<<<"p", "i", "l", "s", "u", "d", "s", "k", "i", "e", "g", "o">>, <<"p", "i", "U+0142", "s", "u", "d", "s", "k", "i", "e", "g", "o">>>>,
       <<<<"s", "l", "o", "w", "a", "c", "k", "i", "e", "g", "o">>, <<"s", "U+0142", "o", "w", "a", "c", "k", "i", "e", "g", "o">>>>,
       <<<<"z", "e", "r", "o", "m", "s", "k", "i", "e", "g", "o">>, <<"U+017C", "e", "r", "o", "m", "s", "k", "i", "e", "g", "o">>>>,
       <<<<"s", "w", "i", "e", "t", "o", "k", "r", "z", "y", "s", "k", "a">>, <<"U+015B", "w", "i", "U+0119", "t", "o", "k", "r", "z", "y", "s", "k", "a">>>>,
       <<<<"s", "t", "a", "n", "i", "s", "l", "a", "w", "a">>, <<"s", "t", "a", "n", "i", "s", "U+0142", "a", "w", "a">>>>,
       <<<<"w", "l", "a", "d", "y", "s", "l", "a", "w", "a">>, <<"w", "U+0142", "a", "d", "y", "s", "U+0142", "a", "w", "a">>>>,
       <<<<"j", "o", "z", "e", "f", "a">>, <<"j", "U+00F3", "z", "e", "f", "a">>>>,
       <<<<"l", "e", "g", "i", "o", "n", "o", "w">>, <<"l", "e", "g", "i", "o", "n", "U+00F3", "w">>>>,
       <<<<"z", "w", "y", "c", "i", "e", "s", "t", "w", "a">>, <<"z", "w", "y", "c", "i", "U+0119", "s", "t", "w", "a">>>>,
       <<<<"p", "o", "l", "n", "o", "c", "n", "a">>, <<"p", "U+00F3", "U+0142", "n", "o", "c", "n", "a">>>>,
       <<<<"p", "o", "l", "u", "d", "n", "i", "o", "w", "a">>, <<"p", "o", "U+0142", "u", "d", "n", "i", "o", "w", "a">>>>,
       <<<<"k", "r", "o", "l", "o", "w", "e", "j">>, <<"k", "r", "U+00F3", "l", "o", "w", "e", "j">>>>,
       <<<<"p", "o", "w", "s", "t", "a", "n", "c", "o", "w">>, <<"p", "o", "w", "s", "t", "a", "U+0144", "c", "U+00F3", "w">>>>,
       <<<<"s", "w", ".">>, <<"U+015B", "w", ".">>>>,
       <<<<"s", "w", " ">>, <<"U+015B", "w", ".", " ">>>> >>

ADDRESS_INDICATORS ==
    << <<"u", "l", ".">>,
       <<"a", "l", ".">>,
       <<"p", "l", ".">>,
       <<"o", "s", ".">>,
       <<"c", "e", "n", "t", "r", "u", "m">>,
       <<"c", "a", "l", "l", "e">>,
       <<"a", "v", "e", "n", "i", "d", "a">>,
       <<"a", "v", "d", "a", ".">>,
       <<"p", "a", "s", "e", "o">>,
       <<"p", "l", "a", "z", "a">>,
       <<"v", "i", "a">>,
       <<"v", "i", "a", "l", "e">>,
       <<"p", "i", "a", "z", "z", "a">>,
       <<"c", "o", "r", "s", "o">>,
       <<"s", "t", "r", "a", "d", "a">> >>

MAPS_STREET_TOKENS ==
    << <<"u", "l", ".">>,
       <<"a", "l", ".">>,
       <<"p", "l", ".">>,
       <<"o", "s", ".">>,
       <<"a", "l", "e", "j", "a">>,
       <<"u", "l", "i", "c", "a">>,
       <<"p", "l", "a", "c">>,
       <<"o", "s", "i", "e", "d", "l", "e">>,
       <<"s", "t", "r", "e", "e", "t">>,
       <<"s", "t", ".">>,
       <<"a", "v", "e", "n", "u", "e">>,
       <<"a", "v", "e", ".">>,
       <<"r", "o", "a", "d">>,
       <<"r", "d", ".">>,
       <<"b", "o", "u", "l", "e", "v", "a", "r", "d">>,
       <<"b", "l", "v", "d", ".">>,
       <<"l", "a", "n", "e">>,
       <<"l", "n", ".">>,
       <<"d", "r", "i", "v", "e">>,
       <<"d", "r", ".">>,
       <<"c", "a", "l", "l", "e">>,
       <<"a", "v", "e", "n", "i", "d", "a">>,
       <<"a", "v", "d", "a", ".">>,
       <<"p", "a", "s", "e", "o">>,
       <<"p", "l", "a", "z", "a">>,
       <<"v", "i", "a">>,
       <<"v", "i", "a", "l", "e">>,
       <<"p", "i", "a", "z", "z", "a">>,
       <<"c", "o", "r", "s", "o">>,
       <<"s", "t", "r", "a", "d", "a">> >>

MAPS_CITY_KEYWORDS ==
    << <<"w", "a", "r", "s", "z", "a", "w", "a">>,
       <<"k", "r", "a", "k", "U+00F3", "w">>,
       <<"U+0142", "U+00F3", "d", "U+017A">>,
       <<"w", "r", "o", "c", "U+0142", "a", "w">>,
       <<"p", "o", "z", "n", "a", "U+0144">>,
       <<"g", "d", "a", "U+0144", "s", "k">>,
       <<"s", "z", "c", "z", "e", "c", "i", "n">>,
       <<"b", "y", "d", "g", "o", "s", "z", "c", "z">>,
       <<"l", "u", "b", "l", "i", "n">>,
       <<"k", "a", "t", "o", "w", "i", "c", "e">>,
       <<"b", "i", "a", "U+0142", "y", "s", "t", "o", "k">>,
       <<"g", "d", "y", "n", "i", "a">>,
       <<"c", "z", "U+0119", "s", "t", "o", "c", "h", "o", "w", "a">>,
       <<"r", "a", "d", "o", "m">>,
       <<"s", "o", "s", "n", "o", "w", "i", "e", "c">>,
       <<"t", "o", "r", "u", "U+0144">>,
       <<"k", "i", "e", "l", "c", "e">>,
       <<"g", "l", "i", "w", "i", "c", "e">>,
       <<"z", "a", "b", "r", "z", "e">>,
       <<"b", "y", "t", "o", "m">>,
       <<"o", "l", "s", "z", "t", "y", "n">>,
       <<"b", "i", "e", "l", "s", "k", "o", "-", "b", "i", "a", "U+0142", "a">>,
       <<"r", "z", "e", "s", "z", "U+00F3", "w">>,
       <<"m", "a", "d", "r", "i", "d">>,
       <<"b", "a", "r", "c", "e", "l", "o", "n", "a">>,
       <<"v", "a", "l", "e", "n", "c", "i", "a">>,
       <<"s", "e", "v", "i", "l", "l", "a">>,
       <<"z", "a", "r", "a", "g", "o", "z", "a">>,
       <<"m", "U+00E1", "l", "a", "g", "a">>,
       <<"m", "u", "r", "c", "i", "a">>,
       <<"p", "a", "l", "m", "a">>,
       <<"b", "i", "l", "b", "a", "o">>,
       <<"a", "l", "i", "c", "a", "n", "t", "e">>,
       <<"c", "U+00F3", "r", "d", "o", "b", "a">>,
       <<"v", "a", "l", "l", "a", "d", "o", "l", "i", "d">>,
       <<"g", "r", "a", "n", "a", "d", "a">>,
       <<"s", "a", "l", "a", "m", "a", "n", "c", "a">>,
       <<"t", "o", "l", "e", "d", "o">>,
       <<"r", "o", "m", "a">>,
       <<"m", "i", "l", "a", "n", "o">>,
       <<"n", "a", "p", "o", "l", "i">>,
       <<"t", "o", "r", "i", "n", "o">>,
       <<"p", "a", "l", "e", "r", "m", "o">>,
       <<"g", "e", "n", "o", "v", "a">>,
       <<"b", "o", "l", "o", "g", "n", "a">>,
       <<"f", "i", "r", "e", "n", "z", "e">>,
       <<"b", "a", "r", "i">>,
       <<"c", "a", "t", "a", "n", "i", "a">>,
       <<"v", "e", "n", "e", "z", "i", "a">>,
       <<"v", "e", "r", "o", "n", "a">>,
       <<"m", "e", "s", "s", "i", "n", "a">>,
       <<"p", "a", "d", "o", "v", "a">>,
       <<"t", "r", "i", "e", "s", "t", "e">>,
       <<"b", "r", "e", "s", "c", "i", "a">>,
       <<"p", "a", "r", "m", "a">>,
       <<"m", "o", "d", "e", "n", "a">> >>

EXCLUDE_TERMS ==
    { <<"g", "r", "o", "c", "e", "r", "i", "e", "s">>,
      <<"g", "r", "o", "c", "e", "r", "y", " ", "s", "t", "o", "r", "e">>,
      <<"m", "a", "r", "k", "e", "t">>,
      <<"n", "a", "n">>,
      <<"n", "u", "l", "l">>,
      <<"p", "c", " ", "g", "a", "m", "e", " ", "p", "u", "r", "c", "h", "a", "s", "e">>,
      <<"s", "h", "o", "p">>,
      <<"s", "t", "o", "r", "e">>,
      <<"z", "a", "k", "u", "p", " ", "w", " ", "t", "e", "r", "m", "i", "n", "a", "l", "u">> }

(***************************************************************************)
(* The module-level lookup tables are state every invocation shares: the   *)
(* functions below read them through the variable                          *)
(***************************************************************************)
VARIABLE tables

\* The tables as the module's import leaves them.
StaticTables ==
    [ PREFIXES_TO_REMOVE |-> PREFIXES_TO_REMOVE,
      POLISH_REPLACEMENTS |-> POLISH_REPLACEMENTS,
      ADDRESS_INDICATORS |-> ADDRESS_INDICATORS,
      MAPS_STREET_TOKENS |-> MAPS_STREET_TOKENS,
      MAPS_CITY_KEYWORDS |-> MAPS_CITY_KEYWORDS,
      EXCLUDE_TERMS |-> EXCLUDE_TERMS ]



\* The key words and separators the patterns and the parsers name.
KW_LOKALIZACJA == <<"l", "o", "k", "a", "l", "i", "z", "a", "c", "j", "a">>

KW_ADRES == <<"a", "d", "r", "e", "s">>

KW_MIASTO == <<"m", "i", "a", "s", "t", "o">>

KW_KRAJ == <<"k", "r", "a", "j">>

PART_DELIMITER == <<"/", "/">>

DASH_SEPARATOR == <<" ", "-", " ">>

COMMA_SPACE == <<",", " ">>

(***************************************************************************)
(* Compiled patterns                                                       *)
(***************************************************************************)
\* kw\s*: matched at i under IGNORECASE: the index after the colon, 0 when
\* the pattern does not match at i.
KeyColonEnd(s, i, kw) ==
    IF MatchAtCI(s, i, kw)
    THEN LET c == SkipSpaces(s, i + Len(kw))
         IN  IF c <= Len(s) /\ s[c] = ":" THEN c + 1 ELSE 0
    ELSE 0

\* kw\s*:\s* matched at i under IGNORECASE: the index after the match, 0
\* when the pattern does not match at i.
KeyEnd(s, i, kw) ==
    LET e == KeyColonEnd(s, i, kw)
    IN  IF e = 0 THEN 0 ELSE SkipSpaces(s, e)

\* The first index >= i where kw\s*:\s* matches, 0 if none.
FindKey(s, i, kw) == LeastOrZero({ j \in i..Len(s) : KeyEnd(s, j, kw) # 0 })

\* Where a greedy [^,]* started at i ends.
SkipNonComma(s, i) ==
    Least({ j \in i..(Len(s) + 1) : j > Len(s) \/ s[j] = "," })

\* _COUNTRY_FIELD_RE = \s*kraj\s*:\s*[^,]* at i: the index after the match,
\* 0 when it does not match at i.
CountryFieldEnd(s, i) ==
    LET e == KeyEnd(s, SkipSpaces(s, i), KW_KRAJ)
    IN  IF e = 0 THEN 0 ELSE SkipNonComma(s, e)

\* _COUNTRY_FIELD_RE.sub('', s), scanning from i.
RECURSIVE SubCountryField(_, _)
SubCountryField(s, i) ==
    LET m == LeastOrZero({ j \in i..Len(s) : CountryFieldEnd(s, j) # 0 })
    IN  IF m = 0 THEN From(s, i)
        ELSE SubSeq(s, i, m - 1) \o SubCountryField(s, CountryFieldEnd(s, m))

\* _COLON_SPACING_RE = \s*:\s* at i: the index after the match, 0 if none.
ColonSpacingEnd(s, i) ==
    LET c == SkipSpaces(s, i)
    IN  IF c <= Len(s) /\ s[c] = ":" THEN SkipSpaces(s, c + 1) ELSE 0

\* The substitution with count=1: only the leftmost match from i is replaced.
SubColonSpacingOnce(s, i) ==
    LET m == LeastOrZero({ j \in i..Len(s) : ColonSpacingEnd(s, j) # 0 })
    IN  IF m = 0 THEN From(s, i)
        ELSE SubSeq(s, i, m - 1) \o COMMA_SPACE
                 \o From(s, ColonSpacingEnd(s, m))

\* _COLON_SPACING_RE.sub(', ', s), scanning from i.
RECURSIVE SubColonSpacing(_, _)
SubColonSpacing(s, i) ==
    LET m == LeastOrZero({ j \in i..Len(s) : ColonSpacingEnd(s, j) # 0 })
    IN  IF m = 0 THEN From(s, i)
        ELSE SubSeq(s, i, m - 1) \o COMMA_SPACE
                 \o SubColonSpacing(s, ColonSpacingEnd(s, m))

\* _MULTIPLE_SPACE_RE.sub(' ', s), scanning from i: \s+ becomes one space.
RECURSIVE SubMultipleSpace(_, _)
SubMultipleSpace(s, i) ==
    LET m == LeastOrZero({ j \in i..Len(s) : IsSpace(s[j]) })
    IN  IF m = 0 THEN From(s, i)
        ELSE SubSeq(s, i, m - 1) \o << " " >>
                 \o SubMultipleSpace(s, SkipSpaces(s, m))

\* _DOUBLE_COMMA_RE = ,\s*, at i: the index after the match, 0 if none.
DoubleCommaEnd(s, i) ==
    IF s[i] = ","
    THEN LET c == SkipSpaces(s, i + 1)
         IN  IF c <= Len(s) /\ s[c] = "," THEN c + 1 ELSE 0
    ELSE 0

\* _DOUBLE_COMMA_RE.sub(',', s), scanning from i: the matches are taken
\* left to right without overlap, in one pass.
RECURSIVE SubDoubleComma(_, _)
SubDoubleComma(s, i) ==
    LET m == LeastOrZero({ j \in i..Len(s) : DoubleCommaEnd(s, j) # 0 })
    IN  IF m = 0 THEN From(s, i)
        ELSE SubSeq(s, i, m - 1) \o << "," >>
                 \o SubDoubleComma(s, DoubleCommaEnd(s, m))

\* _DIGIT_RE.search(s)
DigitSearch(s) == \E i \in 1..Len(s) : IsDigit(s[i])

\* _THREE_TOKEN_NUMBER_RE = \w+\s+\w+\s+\d+ .search(s): a word character,
\* a whitespace run, a run of word characters, a whitespace run, a digit.
ThreeTokenNumberSearch(s) ==
    \E a \in 1..Len(s) :
        /\ IsWord(s[a])
        /\ a + 1 <= Len(s) /\ IsSpace(s[a + 1])
        /\ LET b == SkipSpaces(s, a + 1)
               c == SkipWord(s, b)
               d == SkipSpaces(s, c)
           IN  /\ c > b
               /\ d > c
               /\ d <= Len(s) /\ IsDigit(s[d])

\* \b at index i (between s[i-1] and s[i]).
WordBoundary(s, i) ==
    (i - 1 >= 1 /\ i - 1 <= Len(s) /\ IsWord(s[i - 1]))
        # (i >= 1 /\ i <= Len(s) /\ IsWord(s[i]))

\* r'\b' + re.escape(incorrect) + r'\b' matched at i under IGNORECASE.
LexiconMatchAt(s, i, incorrect) ==
    /\ MatchAtCI(s, i, incorrect)
    /\ WordBoundary(s, i)
    /\ WordBoundary(s, i + Len(incorrect))

\* re.sub(pattern, correct, s, flags=re.IGNORECASE), scanning from i.
RECURSIVE SubLexicon(_, _, _, _)
SubLexicon(s, i, incorrect, correct) ==
    LET m == LeastOrZero({ j \in i..Len(s) : LexiconMatchAt(s, j, incorrect) })
    IN  IF m = 0 THEN From(s, i)
        ELSE SubSeq(s, i, m - 1) \o correct
                 \o SubLexicon(s, m + Len(incorrect), incorrect, correct)

(***************************************************************************)
(* Python values: None, float('nan'), a str, or a raised exception         *)
(***************************************************************************)
None == [t |-> "None", s |-> <<>>]

NaN == [t |-> "float", s |-> <<>>]

Str(s) == [t |-> "str", s |-> s]

Raised(e) == [t |-> e, s |-> <<>>]

IsStr(v) == v.t = "str"

IsRaised(v) == v.t \in { "TypeError", "AttributeError" }

\* bool(v): None and '' are falsy, NaN and every other str are truthy.
Truthy(v) == v.t = "float" \/ (v.t = "str" /\ v.s # <<>>)

(***************************************************************************)
(* clean_location_text, normalize_polish_names, _finalise_location         *)
(***************************************************************************)
\* The loop over _PREFIXES_TO_REMOVE: cleaned.replace(prefix, ' ') for the
\* prefixes k, k+1, ... in table order.
RECURSIVE RemovePrefixes(_, _)
RemovePrefixes(cleaned, k) ==
    IF k > Len(tables.PREFIXES_TO_REMOVE) THEN cleaned
    ELSE RemovePrefixes(Replace(cleaned, tables.PREFIXES_TO_REMOVE[k], << " " >>),
                        k + 1)

\* The body of clean_location_text for a non-empty str.
CleanText(location) ==
    StripSpaceComma(
        SubDoubleComma(
            SubMultipleSpace(
                SubColonSpacing(
                    RemovePrefixes(SubCountryField(location, 1), 1),
                    1),
                1),
            1))

clean_location_text(location) ==
    IF ~Truthy(location) THEN Str(<<>>)
    ELSE IF ~IsStr(location) THEN Raised("TypeError")
    ELSE Str(CleanText(location.s))

\* The loop over _POLISH_REPLACEMENTS.items(), entries k, k+1, ... in
\* insertion order.  The bound variable next holds the value assigned by
\* normalised = re.sub(pattern, correct, normalised, flags=re.IGNORECASE).
RECURSIVE ApplyReplacements(_, _)
ApplyReplacements(normalised, k) ==
    IF k > Len(tables.POLISH_REPLACEMENTS) THEN normalised
    ELSE CHOOSE result \in
             { ApplyReplacements(next, k + 1) :
                   next \in { SubLexicon(normalised, 1,
                                         tables.POLISH_REPLACEMENTS[k][1],
                                         tables.POLISH_REPLACEMENTS[k][2]) } } :
             TRUE

normalize_polish_names(location) ==
    IF ~Truthy(location) THEN Str(<<>>)
    ELSE IF ~IsStr(location) THEN Raised("TypeError")
    ELSE Str(ApplyReplacements(location.s, 1))

\* _finalise_location(part), part a str.
finalise_location(part) ==
    normalize_polish_names(clean_location_text(Str(part)))

(***************************************************************************)
(* _split_parts and the four extraction tiers                              *)
(***************************************************************************)
\* [p.strip() for p in pieces if p and p.strip()]
RECURSIVE StripNonEmpty(_)
StripNonEmpty(pieces) ==
    IF pieces = <<>> THEN <<>>
    ELSE LET p == Strip(Head(pieces))
         IN  (IF p # <<>> THEN << p >> ELSE <<>>)
                 \o StripNonEmpty(Tail(pieces))

\* str(data_string): the text of a str, 'None' for None, 'nan' for NaN.
PyStr(v) ==
    IF IsStr(v) THEN v.s
    ELSE IF v.t = "None" THEN << "N", "o", "n", "e" >>
    ELSE << "n", "a", "n" >>

\* _split_parts(data_string)
split_parts(data_string) ==
    StripNonEmpty(Split(PyStr(data_string), PART_DELIMITER))

\* part.split(' - ')[-1].strip()
LastPiece(pieces) == Strip(pieces[Len(pieces)])

LastDashPiece(part) == LastPiece(Split(part, DASH_SEPARATOR))

\* Where the lazy (?P<address>.*?) started at a ends: the least index e >= a
\* such that, after the whitespace at e, 'miasto\s*:' or 'kraj\s*:' or the
\* end of the payload follows.
AddressEnd(payload, a) ==
    Least({ e \in a..(Len(payload) + 1) :
              LET q == SkipSpaces(payload, e)
              IN  \/ q > Len(payload)
                  \/ KeyEnd(payload, q, KW_MIASTO) # 0
                  \/ KeyEnd(payload, q, KW_KRAJ) # 0 })

\* Where the lazy (?P<city>.*?) started at c ends: the least index e >= c
\* where 'kraj\s*:' or the end of the payload follows.
CityEnd(payload, c) ==
    Least({ e \in c..(Len(payload) + 1) :
              e > Len(payload) \/ KeyEnd(payload, e, KW_KRAJ) # 0 })

\* _STRUCTURED_ADDRESS_RE.search(payload): the groups of the leftmost match
\* (an unmatched city group reads as ''), for a payload in which
\* 'adres\s*:' occurs at index p.
CityGroup(payload, c0) ==
    IF c0 = 0 THEN <<>> ELSE SubSeq(payload, c0, CityEnd(payload, c0) - 1)

\* The groups, given the index a0 after 'adres\s*:\s*' and the index aEnd
\* where the address group ends.
GroupsFrom(payload, a0, aEnd) ==
    [ address |-> SubSeq(payload, a0, aEnd - 1),
      city    |-> CityGroup(payload,
                            KeyEnd(payload, SkipSpaces(payload, aEnd),
                                   KW_MIASTO)) ]

AddressFrom(payload, a0) == GroupsFrom(payload, a0, AddressEnd(payload, a0))

StructuredGroups(payload, p) ==
    AddressFrom(payload, KeyEnd(payload, p, KW_ADRES))

\* s.rfind(':'): the greatest index holding a colon, 0 if none.
LastColon(s) == GreatestOrZero({ i \in 1..Len(s) : s[i] = ":" })

\* The fallback of _extract_address_payload when the pattern finds no
\* 'adres:' in the payload.
\* The rpartition(':') branch, c the index of the last colon (0 if none).
JoinAtColon(without_country, c, address, city) ==
    IF c # 0 /\ address # <<>> /\ city # <<>>
    THEN Str(address \o COMMA_SPACE \o city)
    ELSE Str(without_country)

SplitAtColon(without_country, c) ==
    JoinAtColon(without_country, c,
                StripSpaceComma(SubSeq(without_country, 1, c - 1)),
                StripSpaceComma(From(without_country, c + 1)))

FallbackFrom(without_country) ==
    IF without_country = <<>> THEN None
    ELSE SplitAtColon(without_country, LastColon(without_country))

\* re.split(r'(?i)kraj\s*:\s*', payload, maxsplit=1)[0], k the index of
\* the first match (0 if none).
BeforeCountry(payload, k) ==
    IF k = 0 THEN payload ELSE SubSeq(payload, 1, k - 1)

PayloadFallback(payload) ==
    FallbackFrom(
        StripSpaceComma(BeforeCountry(payload, FindKey(payload, 1, KW_KRAJ))))

\* _extract_address_payload(payload): a str or None.
\* The same with the two groups joined by a space for ', '.
JoinGroupsBySpace(address, city) ==
    IF address # <<>> /\ city # <<>>
    THEN Str(address \o << " " >> \o city)
    ELSE IF address # <<>> THEN Str(address)
    ELSE IF city # <<>> THEN Str(city)
    ELSE None

\* The same with the address group dropped whenever there is a city.
JoinGroupsCityOnly(address, city) ==
    IF city # <<>> THEN Str(city)
    ELSE IF address # <<>> THEN Str(address)
    ELSE None

\* The result for the stripped groups of a match.
JoinGroups(address, city) ==
    IF address # <<>> /\ city # <<>>
    THEN Str(address \o COMMA_SPACE \o city)
    ELSE IF address # <<>> THEN Str(address)
    ELSE IF city # <<>> THEN Str(city)
    ELSE None

StripGroups(g) ==
    JoinGroups(StripSpaceComma(g.address), StripSpaceComma(g.city))

\* p: where 'adres\s*:' first occurs in the payload (0: no match).
PayloadAt(payload, p) ==
    IF p # 0 THEN StripGroups(StructuredGroups(payload, p))
    ELSE PayloadFallback(payload)

extract_address_payload(payload) ==
    PayloadAt(payload, FindKey(payload, 1, KW_ADRES))

\* _parse_structured_part(part): a str or None.
\* m: where 'lokalizacja\s*:\s*' first occurs in working (0: the split
\* gives one piece).
PayloadOf(working, m) ==
    IF m = 0 THEN None
    ELSE extract_address_payload(
             From(working, KeyEnd(working, m, KW_LOKALIZACJA)))

SplitPayload(working) ==
    PayloadOf(working, FindKey(working, 1, KW_LOKALIZACJA))

Working(part, candidate) ==
    IF Contains(Lower(candidate), KW_LOKALIZACJA) THEN candidate ELSE part

HasBothMarkers(lowered) ==
    Contains(lowered, KW_LOKALIZACJA) /\ Contains(lowered, KW_ADRES)

parse_structured_part(part) ==
    IF ~HasBothMarkers(Lower(part)) THEN None
    ELSE SplitPayload(Working(part, LastDashPiece(part)))

\* _extract_dash_part(part): a str or None.
DashCandidate(candidate) ==
    IF candidate # <<>> /\ Lower(candidate) \notin tables.EXCLUDE_TERMS
    THEN Str(candidate)
    ELSE None

extract_dash_part(part) ==
    IF ~Contains(part, DASH_SEPARATOR) THEN None
    ELSE IF Contains(Lower(part), KW_LOKALIZACJA) THEN None
    ELSE DashCandidate(LastDashPiece(part))

\* The heuristic with the length bound off by one: a part of exactly eight
\* characters with a digit is accepted.
LooksLikeAddressAtLeast8(part, lowered) ==
    IF lowered \in tables.EXCLUDE_TERMS THEN FALSE
    ELSE IF ContainsAny(lowered, tables.ADDRESS_INDICATORS) THEN TRUE
    ELSE IF ThreeTokenNumberSearch(part) THEN TRUE
    ELSE DigitSearch(part) /\ Len(part) >= 8

\* _looks_like_address(part)
LooksLikeAddress(part, lowered) ==
    IF lowered \in tables.EXCLUDE_TERMS THEN FALSE
    ELSE IF ContainsAny(lowered, tables.ADDRESS_INDICATORS) THEN TRUE
    ELSE IF ThreeTokenNumberSearch(part) THEN TRUE
    ELSE DigitSearch(part) /\ Len(part) > 8

looks_like_address(part) == LooksLikeAddress(part, Lower(part))

\* The last loop's test with the length bound off by one: a part of exactly
\* three characters is accepted.
is_generic_text_AtLeast3(part) ==
    Lower(part) \notin tables.EXCLUDE_TERMS /\ Len(part) >= 3

\* The test of the last loop of extract_location_from_data.
is_generic_text(part) ==
    Lower(part) \notin tables.EXCLUDE_TERMS /\ Len(part) > 3

(***************************************************************************)
(* extract_location_from_data                                              *)
(***************************************************************************)
\* What the loop of priority tier t makes of one part: the raw candidate it
\* would hand to _finalise_location, None when the part fails the tier's
\* test.
TierCandidate(t, part) ==
    CASE t = 1 -> parse_structured_part(part)
      [] t = 2 -> extract_dash_part(part)
      [] t = 3 -> IF looks_like_address(part) THEN Str(part) ELSE None
      [] t = 4 -> IF is_generic_text(part) THEN Str(part) ELSE None

\* The loop of tier t with the test moved after the finalisation: a part
\* whose finalised candidate is empty is passed over.
FirstPartFinalised(parts, t) ==
    LeastOrZero({ i \in 1..Len(parts) :
                    /\ Truthy(TierCandidate(t, parts[i]))
                    /\ Truthy(finalise_location(
                                  TierCandidate(t, parts[i]).s)) })

\* for part in parts: if <candidate>: return ...  -- the index of the first
\* part the loop of tier t returns on, 0 when the loop falls through.
FirstPart(parts, t) ==
    LeastOrZero({ i \in 1..Len(parts) : Truthy(TierCandidate(t, parts[i])) })

\* An early return '' and the final return ''.
NoLocation == [tier |-> 0, part |-> 0, ret |-> Str(<<>>)]

\* The four loops in order, first[t] the index the loop of tier t returns
\* on: the first loop that finds a part returns its finalised candidate.
ReturnFirst(parts, first) ==
    LET t == IF first[1] # 0 THEN 1
             ELSE IF first[2] # 0 THEN 2
             ELSE IF first[3] # 0 THEN 3
             ELSE IF first[4] # 0 THEN 4
             ELSE 0
    IN  IF t = 0 THEN NoLocation
        ELSE [tier |-> t, part |-> first[t],
              ret |-> finalise_location(
                          TierCandidate(t, parts[first[t]]).s)]

\* One loop over the parts that tries the four tiers on each part in turn:
\* the first part any tier accepts, with the first tier that accepts it.
FirstAccepted(parts) ==
    LeastOrZero({ i \in 1..Len(parts) :
                    \E t \in 1..4 : Truthy(TierCandidate(t, parts[i])) })

ReturnFirstPart(parts, i) ==
    IF i = 0 THEN NoLocation
    ELSE ReturnFirst(parts,
                     [t \in 1..4 |->
                        IF Truthy(TierCandidate(t, parts[i])) THEN i ELSE 0])

ExtractPartByPart(parts) ==
    IF parts = <<>> THEN NoLocation
    ELSE ReturnFirstPart(parts, FirstAccepted(parts))

ExtractFromParts(parts) ==
    IF parts = <<>> THEN NoLocation
    ELSE ReturnFirst(parts, [t \in 1..4 |-> FirstPart(parts, t)])

\* The locals of extract_location_from_data when it returns: the priority
\* tier whose loop returned (0: an early return or the final return ''),
\* the index in parts of the part it used, and the value returned.
\* The same without the test for None.
ExtractRunNoneUnguarded(data_string) ==
    IF \/ data_string = Str(<<>>)
       \/ data_string.t = "float"
    THEN NoLocation
    ELSE ExtractFromParts(split_parts(data_string))

ExtractRun(data_string) ==
    IF \/ data_string.t = "None"
       \/ data_string = Str(<<>>)
       \/ data_string.t = "float"
    THEN NoLocation
    ELSE ExtractFromParts(split_parts(data_string))

extract_location_from_data(data_string) == ExtractRun(data_string).ret

(***************************************************************************)
(* create_google_maps_link                                                 *)
(***************************************************************************)
MAPS_SEARCH_URL ==
    << "h", "t", "t", "p", "s", ":", "/", "/", "w", "w", "w", ".",
       "g", "o", "o", "g", "l", "e", ".", "c", "o", "m", "/",
       "m", "a", "p", "s", "/", "s", "e", "a", "r", "c", "h", "/" >>

has_street_indicator(trimmed) ==
    ContainsAny(Lower(trimmed), tables.MAPS_STREET_TOKENS)

has_comma(trimmed) == \E i \in 1..Len(trimmed) : trimmed[i] = ","

has_number(trimmed) == DigitSearch(trimmed)

has_city(trimmed) == ContainsAny(Lower(trimmed), tables.MAPS_CITY_KEYWORDS)

\* The same with a comma accepted on its own.
PassesGateOnComma(trimmed) ==
    has_street_indicator(trimmed) \/ has_comma(trimmed)

\* The validation of create_google_maps_link.
PassesGate(trimmed) ==
    \/ has_street_indicator(trimmed)
    \/ (has_comma(trimmed) /\ (has_number(trimmed) \/ has_city(trimmed)))

\* The loop over _PREFIXES_TO_REMOVE of create_google_maps_link, prefixes
\* k, k+1, ... : one pass in table order, each prefix tested against the
\* text as the earlier prefixes left it.
RECURSIVE StripLeadingPrefixes(_, _)
StripLeadingPrefixes(trimmed, k) ==
    IF k > Len(tables.PREFIXES_TO_REMOVE) THEN trimmed
    ELSE IF MatchAt(Lower(trimmed), 1, tables.PREFIXES_TO_REMOVE[k])
         THEN StripLeadingPrefixes(
                  Strip(From(trimmed, Len(tables.PREFIXES_TO_REMOVE[k]) + 1)), k + 1)
         ELSE StripLeadingPrefixes(trimmed, k + 1)

\* The tail \s+kraj\s*:\s*\w+$ of _MAPS_SUFFIX_RE right after index ge.
SuffixTailAfter(s, ge) ==
    /\ ge + 1 <= Len(s)
    /\ IsSpace(s[ge + 1])
    /\ LET e == KeyEnd(s, SkipSpaces(s, ge + 1), KW_KRAJ)
       IN  e # 0 /\ e <= Len(s) /\ SkipWord(s, e) = Len(s) + 1

\* Where the lazy group ([^:]+?) of _MAPS_SUFFIX_RE started at g0 ends (its
\* last index): the shortest colon-free text the tail follows; 0 if none.
SuffixGroupEnd(s, g0) ==
    LeastOrZero({ ge \in g0..Len(s) :
                    /\ \A j \in g0..ge : s[j] # ":"
                    /\ SuffixTailAfter(s, ge) })

\* _MAPS_SUFFIX_RE = \s*:\s*([^:]+?)\s+kraj\s*:\s*\w+$ matched at p: the
\* span <<first, last>> of group 1, <<0, 0>> when it does not match at p.
\* The greedy \s* after the colon gives whitespace back to the group when
\* the group would otherwise be empty.
SuffixGroupFrom(s, g0) ==
    IF g0 = 0 THEN << 0, 0 >> ELSE << g0, SuffixGroupEnd(s, g0) >>

SuffixGroupAfter(s, c) ==
    IF c > Len(s) \/ s[c] # ":" THEN << 0, 0 >>
    ELSE SuffixGroupFrom(
             s,
             GreatestOrZero({ g \in (c + 1)..SkipSpaces(s, c + 1) :
                                SuffixGroupEnd(s, g) # 0 }))

SuffixGroupAt(s, p) == SuffixGroupAfter(s, SkipSpaces(s, p))

\* _MAPS_SUFFIX_RE.sub(r', \1', s): the pattern ends at the end of the
\* text, so the leftmost match is the only one.
ReplaceSuffix(s, p, g) ==
    SubSeq(s, 1, p - 1) \o COMMA_SPACE \o SubSeq(s, g[1], g[2])

SubSuffixAt(s, p) ==
    IF p = 0 THEN s ELSE ReplaceSuffix(s, p, SuffixGroupAt(s, p))

SubMapsSuffix(s) ==
    SubSuffixAt(s, LeastOrZero({ p \in 1..Len(s) :
                                   SuffixGroupAt(s, p)[1] # 0 }))

\* The cleanup pass with a final strip that takes full stops too:
\* trimmed.strip(' ,.')
MapsCleanupStripDots(trimmed) ==
    StripSet(
        SubDoubleComma(
            SubMultipleSpace(
                SubColonSpacing(SubMapsSuffix(trimmed), 1),
                1),
            1),
        { " ", ",", "." })

\* The final cleanup pass of create_google_maps_link.
MapsCleanup(trimmed) ==
    StripSpaceComma(
        SubDoubleComma(
            SubMultipleSpace(
                SubColonSpacing(SubMapsSuffix(trimmed), 1),
                1),
            1))

\* The characters urllib.parse.quote leaves as they are: the unreserved
\* ones and its default safe='/'.
QuoteSafe ==
    { "a", "b", "c", "d", "e", "f", "g", "h", "i", "j", "k", "l", "m",
      "n", "o", "p", "q", "r", "s", "t", "u", "v", "w", "x", "y", "z",
      "A", "B", "C", "D", "E", "F", "G", "H", "I", "J", "K", "L", "M",
      "N", "O", "P", "Q", "R", "S", "T", "U", "V", "W", "X", "Y", "Z",
      "0", "1", "2", "3", "4", "5", "6", "7", "8", "9",
      "_", ".", "-", "~", "/" }

PercentEscape ==
    (" " :> <<"%", "2", "0">>) @@ ("!" :> <<"%", "2", "1">>) @@
    ("#" :> <<"%", "2", "3">>) @@ ("$" :> <<"%", "2", "4">>) @@
    ("%" :> <<"%", "2", "5">>) @@ ("&" :> <<"%", "2", "6">>) @@
    ("+" :> <<"%", "2", "B">>) @@ ("," :> <<"%", "2", "C">>) @@
    (":" :> <<"%", "3", "A">>) @@ (";" :> <<"%", "3", "B">>) @@
    ("=" :> <<"%", "3", "D">>) @@ ("?" :> <<"%", "3", "F">>) @@
    ("@" :> <<"%", "4", "0">>) @@ ("\t" :> <<"%", "0", "9">>) @@
    ("U+00E1" :> <<"%", "C", "3", "%", "A", "1">>) @@ ("U+00F3" :> <<"%", "C", "3", "%", "B", "3">>) @@
    ("U+0105" :> <<"%", "C", "4", "%", "8", "5">>) @@ ("U+0119" :> <<"%", "C", "4", "%", "9", "9">>) @@
    ("U+0142" :> <<"%", "C", "5", "%", "8", "2">>) @@ ("U+0144" :> <<"%", "C", "5", "%", "8", "4">>) @@
    ("U+015B" :> <<"%", "C", "5", "%", "9", "B">>) @@ ("U+017A" :> <<"%", "C", "5", "%", "B", "A">>) @@
    ("U+017C" :> <<"%", "C", "5", "%", "B", "C">>) @@ ("U+00C1" :> <<"%", "C", "3", "%", "8", "1">>) @@
    ("U+00D3" :> <<"%", "C", "3", "%", "9", "3">>) @@ ("U+0104" :> <<"%", "C", "4", "%", "8", "4">>) @@
    ("U+0118" :> <<"%", "C", "4", "%", "9", "8">>) @@ ("U+0141" :> <<"%", "C", "5", "%", "8", "1">>) @@
    ("U+0143" :> <<"%", "C", "5", "%", "8", "3">>) @@ ("U+015A" :> <<"%", "C", "5", "%", "9", "A">>) @@
    ("U+0179" :> <<"%", "C", "5", "%", "B", "9">>) @@ ("U+017B" :> <<"%", "C", "5", "%", "B", "B">>)

\* urllib.parse.quote(s)
RECURSIVE Quote(_)
Quote(s) ==
    LET m == LeastOrZero({ j \in 1..Len(s) : s[j] \notin QuoteSafe })
    IN  IF m = 0 THEN s
        ELSE SubSeq(s, 1, m - 1) \o PercentEscape[s[m]]
                 \o Quote(From(s, m + 1))

\* The text create_google_maps_link encodes, for a str that passes the
\* validation.
MapsText(trimmed) == MapsCleanup(StripLeadingPrefixes(trimmed, 1))

\* The lone surrogate code points of the model's alphabet: quote() encodes
\* its argument with str.encode('utf-8', 'strict'), which raises on them.
Surrogates == { "U+D800", "U+DFFF" }

\* The return without the 'if not trimmed' test before it: an empty cleaned
\* text gives the bare prefix.
LinkOfUnchecked(cleaned) ==
    IF \E i \in 1..Len(cleaned) : cleaned[i] \in Surrogates
    THEN Raised("UnicodeEncodeError")
    ELSE Str(MAPS_SEARCH_URL \o Quote(cleaned))

\* From 'if not trimmed' to the return, cleaned the text after the cleanup.
LinkOf(cleaned) ==
    IF cleaned = <<>> THEN Str(<<>>)
    ELSE IF \E i \in 1..Len(cleaned) : cleaned[i] \in Surrogates
         THEN Raised("UnicodeEncodeError")
    ELSE Str(MAPS_SEARCH_URL \o Quote(cleaned))

LinkOfTrimmed(trimmed) ==
    IF trimmed = <<>> THEN Str(<<>>)
    ELSE IF ~PassesGate(trimmed) THEN Str(<<>>)
    ELSE LinkOf(MapsText(trimmed))

create_google_maps_link(location) ==
    IF ~Truthy(location) THEN Str(<<>>)
    ELSE IF ~IsStr(location) THEN Raised("AttributeError")
    ELSE LinkOfTrimmed(Strip(location.s))

(***************************************************************************)
(* The calls: one row of the export, and the public functions on their own *)
(***************************************************************************)
VARIABLES
    arg,    \* the argument of the call: None, NaN or a str
    pc,     \* "start", then the name of the call that has returned
    ret,    \* what the call returned (or raised)
    tier,   \* extract_location_from_data: the priority tier that returned
    part,   \* extract_location_from_data: the index of the part it used
    link,   \* the row's google_maps_link, built from extracted_location
    encoding,           \* read_transaction_csv: the caller's encoding
    encodings_to_try,   \* read_transaction_csv: the candidate list
    attempts,           \* the pd.read_csv calls so far: encoding and outcome
    rpc,                \* read_transaction_csv: "idle", "entry", "loop", "done"
    result,             \* what read_transaction_csv returned or raised
    mpc,            \* main: "idle", "start", then the step main has reached
    calls,          \* main: the calls it has made, with argument and outcome
    df,             \* main: the DataFrame read_transaction_csv returned
    processed_df,   \* main: the DataFrame process_dataframe returned
    workers,    \* the concurrent invocations, one row each
    data,       \* mappings: its argument
    category,   \* mappings: what it returned
    expense,    \* the Expense under construction
    core_df,    \* data_core: the DataFrame df of the function that runs
    snapshots,  \* data_core: the argument df as passed, then df after each call
    core_pc     \* process_dataframe: the statement it has reached

\* The state of the calls of location_processor.
locationVars == << arg, pc, ret, tier, part, link >>

\* The state of a call of read_transaction_csv.
readerVars == << encoding, encodings_to_try, attempts, rpc, result >>

\* The state of a run of main.
mainVars == << mpc, calls, df, processed_df >>

\* The lookup tables and the invocations that run side by side on them.
sharedVars == << tables, workers >>

\* The state of the categoriser: mappings, Expense and data_core.
coreVars == << data, category, expense, core_df, snapshots, core_pc >>

vars == << locationVars, readerVars, mainVars, sharedVars, coreVars >>

\* No value yet.
Unset == [t |-> "unset", s |-> <<>>]

\* All concatenations of at most n fragments of F.
RECURSIVE Concats(_, _)
Concats(F, n) ==
    IF n = 0 THEN { <<>> }
    ELSE LET shorter == Concats(F, n - 1)
         IN  shorter \cup { x \o f : x \in shorter, f \in F }

\* No DataFrame yet.
NoFrame == [by |-> "none"]

\* read_transaction_csv has neither returned nor raised.
NoResult == [kind |-> "none"]

\* No Expense yet.
NoExpense == [state |-> "none"]

\* The categoriser is not running.
CoreIdle ==
    /\ data = None
    /\ category = Unset
    /\ expense = NoExpense
    /\ core_df = NoFrame
    /\ snapshots = <<>>
    /\ core_pc = "idle"

\* The calls start from an argument of the set Args.
InitWith(Args) ==
    /\ arg \in Args
    /\ pc = "start"
    /\ ret = Unset
    /\ tier = 0
    /\ part = 0
    /\ link = Unset
    /\ encoding = None
    /\ encodings_to_try = <<>>
    /\ attempts = <<>>
    /\ rpc = "idle"
    /\ result = NoResult
    /\ mpc = "idle"
    /\ calls = <<>>
    /\ df = NoFrame
    /\ processed_df = NoFrame
    /\ tables = StaticTables
    /\ workers = <<>>
    /\ CoreIdle

\* df_copy["data"].apply(extract_location_from_data), one row.
ExtractLocation ==
    /\ pc = "start"
    /\ LET run == ExtractRun(arg)
       IN  /\ ret' = run.ret
           /\ tier' = run.tier
           /\ part' = run.part
    /\ pc' = "extracted"
    /\ UNCHANGED << arg, link >>
    /\ UNCHANGED << readerVars, mainVars, sharedVars, coreVars >>

\* df_copy["extracted_location"].apply(create_google_maps_link), the same
\* row.
ExportLink ==
    /\ pc = "extracted"
    /\ link' = create_google_maps_link(ret)
    /\ pc' = "linked"
    /\ UNCHANGED << arg, ret, tier, part >>
    /\ UNCHANGED << readerVars, mainVars, sharedVars, coreVars >>

\* create_google_maps_link(arg), called on its own.
CreateLink ==
    /\ pc = "start"
    /\ ret' = create_google_maps_link(arg)
    /\ pc' = "built"
    /\ UNCHANGED << arg, tier, part, link >>
    /\ UNCHANGED << readerVars, mainVars, sharedVars, coreVars >>

\* clean_location_text(arg), called on its own.
CleanLocation ==
    /\ pc = "start"
    /\ ret' = clean_location_text(arg)
    /\ pc' = "cleaned"
    /\ UNCHANGED << arg, tier, part, link >>
    /\ UNCHANGED << readerVars, mainVars, sharedVars, coreVars >>

\* normalize_polish_names(arg), called on its own.
NormalizeNames ==
    /\ pc = "start"
    /\ ret' = normalize_polish_names(arg)
    /\ pc' = "normalised"
    /\ UNCHANGED << arg, tier, part, link >>
    /\ UNCHANGED << readerVars, mainVars, sharedVars, coreVars >>

\* _finalise_location(arg), arg a str.
FinaliseLocation ==
    /\ pc = "start"
    /\ IsStr(arg)
    /\ ret' = finalise_location(arg.s)
    /\ pc' = "finalised"
    /\ UNCHANGED << arg, tier, part, link >>
    /\ UNCHANGED << readerVars, mainVars, sharedVars, coreVars >>

Next ==
    \/ ExtractLocation
    \/ ExportLink
    \/ CreateLink
    \/ CleanLocation
    \/ NormalizeNames
    \/ FinaliseLocation

(***************************************************************************)
(* Arguments: None, NaN and short texts of whitespace, delimiters,         *)
(* punctuation, words and a lone surrogate                                 *)
(***************************************************************************)
MaxFragments == 3

Fragments ==
    { << " " >>,
      << "\t" >>,
      << "/", "/" >>,
      << "a" >>,
      << "u", "l", "." >>,
      << "," >>,
      << "1" >>,
      << "U+D800" >> }

Texts == Concats(Fragments, MaxFragments)

Init == InitWith({ None, NaN } \cup { Str(x) : x \in Texts })

Spec == Init /\ [][Next]_vars

\* C1: for None, NaN, the empty string, whitespace-only strings and
\* arbitrary strings, extract_location_from_data and
\* create_google_maps_link each return a str and never raise.
C1_ReturnsStr == pc \in { "extracted", "built" } => IsStr(ret)

\* The text holds nothing but whitespace and '//' delimiters from index i
\* on: its split on '//' leaves no non-empty trimmed part.
RECURSIVE NoTextBetweenDelimiters(_, _)
NoTextBetweenDelimiters(s, i) ==
    IF i > Len(s) THEN TRUE
    ELSE IF IsSpace(s[i]) THEN NoTextBetweenDelimiters(s, i + 1)
    ELSE IF MatchAt(s, i, PART_DELIMITER)
         THEN NoTextBetweenDelimiters(s, i + 2)
    ELSE FALSE

WhitespaceOnly(s) == \A i \in 1..Len(s) : IsSpace(s[i])

\* C5: extract_location_from_data returns '' for None, for NaN, for the
\* empty string and for any text of whitespace and '//' delimiters only;
\* create_google_maps_link returns '' for None, for the empty string and for
\* whitespace-only text.
C5_EmptyForNoInput ==
    /\ (/\ pc = "extracted"
        /\ \/ arg \in { None, NaN }
           \/ (IsStr(arg) /\ NoTextBetweenDelimiters(arg.s, 1)))
           => ret = Str(<<>>)
    /\ (/\ pc = "built"
        /\ \/ arg = None
           \/ (IsStr(arg) /\ WhitespaceOnly(arg.s)))
           => ret = Str(<<>>)

\* extract_location_from_data has returned '' for ' // \t' and the like: a
\* text with a delimiter and whitespace around it.
C5_Witness ==
    /\ pc = "extracted"
    /\ IsStr(arg)
    /\ Len(arg.s) = 3
    /\ Contains(arg.s, PART_DELIMITER)
    /\ NoTextBetweenDelimiters(arg.s, 1)
    /\ ret = Str(<<>>)

(***************************************************************************)
(* Arguments: texts of one or more '//'-separated parts, one part for each *)
(* way through the four tiers                                              *)
(***************************************************************************)
MaxParts == 2

\* A structured block, two dash patterns, a dash pattern that ends in an
\* exclude term, an address, a generic word and an exclude term.
TierParts ==
    { << "l", "o", "k", "a", "l", "i", "z", "a", "c", "j", "a", ":", " ",
         "a", "d", "r", "e", "s", ":", " ", "u", "l", ".", " ", "N", "o",
         "w", "a", " ", "5", " ", "m", "i", "a", "s", "t", "o", ":", " ",
         "L", "o", "d", "z" >>,
      << "S", "K", "L", "E", "P", " ", "-", " ", "u", "l", ".", " ", "P",
         "o", "l", "n", "a", " ", "3" >>,
      << "S", "K", "L", "E", "P", " ", "-", " ", "-", " ", "u", "l", ".",
         " ", "N", "o", "w", "a", " ", "5" >>,
      << "x", " ", "-", " ", "s", "h", "o", "p" >>,
      << "u", "l", ".", " ", "D", "l", "u", "g", "a", " ", "7" >>,
      << "k", "i", "o", "s", "k" >>,
      << "s", "h", "o", "p" >> }

\* '//'.join(ps)
RECURSIVE JoinParts(_)
JoinParts(ps) ==
    IF Len(ps) = 1 THEN ps[1]
    ELSE ps[1] \o PART_DELIMITER \o JoinParts(Tail(ps))

TierTexts ==
    { JoinParts(ps) : ps \in UNION { [1..n -> TierParts] : n \in 1..MaxParts } }

InitTiers == InitWith({ Str(x) : x \in TierTexts })

SpecTiers == InitTiers /\ [][Next]_vars

\* C2: the part extract_location_from_data uses is the least under the
\* order (tier, position): no part passes a lower tier, no earlier part
\* passes the same tier, and the result is the finalised candidate of that
\* part; '' is returned only when no part passes any tier.
C2_LeastTierThenPosition ==
    (pc = "extracted" /\ IsStr(arg) /\ arg.s # <<>>) =>
        LET parts == split_parts(arg)
            Passes(t, i) == Truthy(TierCandidate(t, parts[i]))
        IN  /\ tier = 0 =>
                /\ ret = Str(<<>>)
                /\ \A t \in 1..4, i \in 1..Len(parts) : ~Passes(t, i)
            /\ tier # 0 =>
                /\ tier \in 1..4 /\ part \in 1..Len(parts)
                /\ Passes(tier, part)
                /\ \A t \in 1..4, i \in 1..Len(parts) :
                       Passes(t, i) => (tier < t \/ (tier = t /\ part <= i))
                /\ ret = finalise_location(
                             TierCandidate(tier, parts[part]).s)

\* The structured block in second position was used although the first
\* part is a dash pattern.
C2_Witness ==
    /\ pc = "extracted"
    /\ IsStr(arg)
    /\ tier = 1
    /\ part = 2
    /\ Truthy(extract_dash_part(split_parts(arg)[1]))
    /\ ret # Str(<<>>)

\* part[part.rfind(' - ') + 3:].strip(): the text after the last ' - '.
AfterLastDash(p) ==
    Strip(From(p, GreatestOrZero({ i \in 1..Len(p) :
                                     MatchAt(p, i, DASH_SEPARATOR) })
                  + Len(DASH_SEPARATOR)))

\* The dash pattern as the specification words it.
IsDashPattern(p) ==
    /\ Contains(p, DASH_SEPARATOR)
    /\ ~Contains(Lower(p), KW_LOKALIZACJA)
    /\ AfterLastDash(p) # <<>>
    /\ Lower(AfterLastDash(p)) \notin EXCLUDE_TERMS

\* C10: when no part yields a structured-block candidate,
\* extract_location_from_data takes the first part that contains ' - ', does
\* not contain 'lokalizacja' and whose text after the last ' - ' is non-empty
\* and no exclude term, and returns that trailing text finalised.
C10_TextAfterLastDash ==
    (pc = "extracted" /\ IsStr(arg) /\ arg.s # <<>>) =>
        LET parts == split_parts(arg)
            dashed == { i \in 1..Len(parts) : IsDashPattern(parts[i]) }
        IN  (/\ \A i \in 1..Len(parts) : ~Truthy(parse_structured_part(parts[i]))
             /\ dashed # {})
                => ret = finalise_location(AfterLastDash(parts[Least(dashed)]))

(***************************************************************************)
(* Arguments: structured blocks 'lokalizacja: adres: A miasto: C kraj: K'  *)
(* in three letter cases and three spacings of the colons, alone or after  *)
(* another '//'-separated part                                             *)
(***************************************************************************)
\* The metadata keys in lower case, upper case and capitalised.
KeyCases == { "lower", "upper", "title" }

KeyText ==
    [ kc \in KeyCases |->
        CASE kc = "lower" ->
                 ( "lokalizacja" :> << "l", "o", "k", "a", "l", "i", "z", "a",
                                 "c", "j", "a" >>
                 @@ "adres" :> << "a", "d", "r", "e", "s" >>
                 @@ "miasto" :> << "m", "i", "a", "s", "t", "o" >>
                 @@ "kraj" :> << "k", "r", "a", "j" >> )
          [] kc = "upper" ->
                 ( "lokalizacja" :> << "L", "O", "K", "A", "L", "I", "Z", "A",
                                 "C", "J", "A" >>
                 @@ "adres" :> << "A", "D", "R", "E", "S" >>
                 @@ "miasto" :> << "M", "I", "A", "S", "T", "O" >>
                 @@ "kraj" :> << "K", "R", "A", "J" >> )
          [] kc = "title" ->
                 ( "lokalizacja" :> << "L", "o", "k", "a", "l", "i", "z", "a",
                                 "c", "j", "a" >>
                 @@ "adres" :> << "A", "d", "r", "e", "s" >>
                 @@ "miasto" :> << "M", "i", "a", "s", "t", "o" >>
                 @@ "kraj" :> << "K", "r", "a", "j" >> ) ]

\* The whitespace before and after a key's colon: 'key: ', 'key : ', 'key:'.
ColonSpacings ==
    { << <<>>, << " " >> >>,
      << << " " >>, << " " >> >>,
      << <<>>, <<>> >> }

\* A key of case kc with its colon spaced as sp.
KeyField(kc, sp, key) == KeyText[kc][key] \o sp[1] \o << ":" >> \o sp[2]

\* Nothing, a generic part and a dash pattern, each with its delimiter.
PrecedingParts ==
    { <<>>,
      << "k", "i", "o", "s", "k", "/", "/" >>,
      << "S", "K", "L", "E", "P", " ", "-", " ", "u", "l", ".", " ", "P",
         "o", "l", "n", "a", " ", "3", " ", "/", "/", " " >> }

\* The values A, C and K: free text without a colon, trimmed.
AddressValues ==
    { <<>>,
      << "u", "l", ".", " ", "N", "o", "w", "a", " ", "5" >>,
      << "u", "l", ".", " ", "s", "w", ".", " ", "J", "a", "n", "a", " ",
         "1" >>,
      << "a", ",", ",", ",", "b" >> }

CityValues ==
    { <<>>,
      << "L", "o", "d", "z" >>,
      << "N", "o", "w", "y", " ", "S", "a", "c", "z" >> }

CountryValues ==
    { << "P", "o", "l", "s", "k", "a" >>,
      << "P", "L", " ", "1" >> }

StructuredInputs ==
    [ pre : PrecedingParts, kc : KeyCases, sp : ColonSpacings,
      A : AddressValues, C : CityValues, K : CountryValues ]

\* The text of the input r.
StructuredText(r) ==
    r.pre \o KeyField(r.kc, r.sp, "lokalizacja")
          \o KeyField(r.kc, r.sp, "adres") \o r.A \o << " " >>
          \o KeyField(r.kc, r.sp, "miasto") \o r.C \o << " " >>
          \o KeyField(r.kc, r.sp, "kraj") \o r.K

\* 'A, C', or the one of A and C that is not empty.
AddressAndCity(r) ==
    IF r.A # <<>> /\ r.C # <<>> THEN r.A \o COMMA_SPACE \o r.C
    ELSE IF r.A # <<>> THEN r.A
    ELSE r.C

\* Each input text with the text its block stands for.
StructuredCases ==
    { << StructuredText(r), AddressAndCity(r) >> : r \in StructuredInputs }

InitStructured ==
    InitWith({ None, NaN } \cup { Str(c[1]) : c \in StructuredCases })

SpecStructured == InitStructured /\ [][Next]_vars

\* C3: for a part 'lokalizacja: adres: A miasto: C kraj: K', its keys in any
\* letter case and with optional spaces around the colons, alone or after
\* other parts, extract_location_from_data returns 'A, C' finalised when A
\* and C are non-empty and the non-empty one finalised when only one is; K
\* is dropped.
C3_StructuredBlock ==
    pc = "extracted" =>
        \A c \in StructuredCases :
            (arg = Str(c[1]) /\ c[2] # <<>>)
                => ret = finalise_location(c[2])

\* An upper-case block with spaced colons after a dash-pattern part gave
\* 'ul. Nowa 5, Lodz' with its diacritics.
C3_Witness ==
    /\ pc = "extracted"
    /\ tier = 1
    /\ part = 2
    /\ Contains(arg.s, KeyText["upper"]["miasto"] \o << " ", ":" >>)
    /\ ret = Str(<< "u", "l", ".", " ", "N", "o", "w", "a", " ", "5", ",",
                    " ", "U+0142", "U+00F3", "d", "U+017A" >>)

\* The blocks of C9: lower-case keys, 'key: ', no other part.
CanonicalTexts ==
    { StructuredText(r) : r \in { q \in StructuredInputs :
                                    /\ q.pre = <<>>
                                    /\ q.kc = "lower"
                                    /\ q.sp = << <<>>, << " " >> >> } }

\* C9: _finalise_location is idempotent on the strings
\* 'lokalizacja: adres: A miasto: C kraj: K':
\* finalise(finalise(x)) = finalise(x).
C9_FinaliseIdempotent ==
    (pc = "finalised" /\ arg.s \in CanonicalTexts)
        => finalise_location(ret.s) = ret

(***************************************************************************)
(* Arguments: one metadata key, in any letter case and spacing, and its    *)
(* value                                                                   *)
(***************************************************************************)
MetadataKeys == { "lokalizacja", "adres", "miasto", "kraj" }

\* No, one or two spaces before the colon, one space after it.
KeySpacings ==
    { << <<>>, << " " >> >>,
      << << " " >>, << " " >> >>,
      << << " ", " " >>, << " " >> >> }

\* Values that hold no metadata key themselves.
KeyValues ==
    { << "u", "l", ".", " ", "N", "o", "w", "a", " ", "5" >>,
      << "L", "o", "d", "z" >> }

KeyTexts ==
    { KeyField(kc, sp, key) \o v :
          kc \in KeyCases, sp \in KeySpacings, key \in MetadataKeys,
          v \in KeyValues }

InitKeys == InitWith({ Str(x) : x \in KeyTexts })

SpecKeys == InitKeys /\ [][Next]_vars

\* C7: the finalised location extract_location_from_data returns holds none
\* of the metadata tokens 'lokalizacja', 'adres', 'miasto', 'kraj', whatever
\* the letter case of the key in the input and the spacing before its
\* colon.
C7_NoMetadataToken ==
    (pc = "extracted" /\ IsStr(ret)) =>
        \A key \in MetadataKeys :
            ~Contains(Lower(ret.s), KeyText["lower"][key])

(***************************************************************************)
(* Arguments: the incorrect forms of the lexicon, each alone               *)
(***************************************************************************)
InitLexicon ==
    InitWith({ Str(POLISH_REPLACEMENTS[k][1]) :
                   k \in 1..Len(POLISH_REPLACEMENTS) })

SpecLexicon == InitLexicon /\ [][Next]_vars

\* C8: for every (incorrect, correct) pair of _POLISH_REPLACEMENTS, the
\* entries 'sw.' and 'sw ' included, normalize_polish_names of the incorrect
\* form alone is the correct form.
C8_LexiconPairs ==
    pc = "normalised" =>
        \A k \in 1..Len(POLISH_REPLACEMENTS) :
            arg = Str(POLISH_REPLACEMENTS[k][1])
                => ret = Str(POLISH_REPLACEMENTS[k][2])

(***************************************************************************)
(* Arguments: short texts of letters, commas and spaces                    *)
(***************************************************************************)
MaxPunctuation == 5

Punctuation == { << "a" >>, << "," >>, << " " >> }

InitCommas ==
    InitWith({ Str(x) : x \in Concats(Punctuation, MaxPunctuation) })

SpecCommas == InitCommas /\ [][Next]_vars

\* Two commas with nothing but whitespace between them.
HasDuplicateComma(s) ==
    \E i \in 1..Len(s) :
        s[i] = "," /\ SkipSpaces(s, i + 1) <= Len(s)
                   /\ s[SkipSpaces(s, i + 1)] = ","

HasSpaceRun(s) == \E i \in 1..(Len(s) - 1) : s[i] = " " /\ s[i + 1] = " "

\* C6: the string clean_location_text returns, and so the one
\* _finalise_location and extract_location_from_data return, has no
\* duplicate commas (adjacent or with only whitespace between), no run of
\* two or more spaces, and neither begins nor ends with a space or a comma.
C6_CleanedShape ==
    (pc \in { "cleaned", "finalised", "extracted" } /\ IsStr(ret)) =>
        /\ ~HasDuplicateComma(ret.s)
        /\ ~HasSpaceRun(ret.s)
        /\ ret.s # <<>> =>
              /\ ret.s[1] \notin { " ", "," }
              /\ ret.s[Len(ret.s)] \notin { " ", "," }

(***************************************************************************)
(* Arguments: short texts of street tokens, city names, numbers, commas,   *)
(* colons and a country suffix                                             *)
(***************************************************************************)
LinkFragments ==
    { << ":", " " >>,
      << ",", " " >>,
      << "k", "r", "a", "j", ":", " ", "1" >>,
      << "u", "l", ".", " " >>,
      << "a" >>,
      << "5" >>,
      << "r", "o", "m", "a" >> }

InitLinks ==
    InitWith({ Str(x) : x \in Concats(LinkFragments, MaxFragments) })

SpecLinks == InitLinks /\ [][Next]_vars

GenericParts ==
    { << "k", "i", "o", "s", "k" >>,
      << "a", "b", "c" >>,
      << "s", "h", "o", "p" >>,
      << "z", "a", "k", "u", "p", " ", "w", " ", "t", "e", "r", "m", "i",
         "n", "a", "l", "u" >>,
      << "g", "r", "o", "c", "e", "r", "y", " ", "s", "t", "o", "r", "e" >>,
      << "S", "k", "l", "e", "p", " ", "A", "B", "C" >>,
      << "u", "l", ".", " ", "D", "l", "u", "g", "a", " ", "7" >> }

GenericTexts ==
    { JoinParts(ps) :
        ps \in UNION { [1..n -> GenericParts] : n \in 1..MaxParts } }

InitGeneric == InitWith({ Str(x) : x \in GenericTexts })

SpecGeneric == InitGeneric /\ [][Next]_vars

\* The parts of a row the last loop may return: not an exclude term once
\* lower-cased, and longer than three characters.
Eligible(parts) ==
    { i \in 1..Len(parts) :
        Lower(parts[i]) \notin EXCLUDE_TERMS /\ Len(parts[i]) > 3 }

NoAddressTier(parts) ==
    \A t \in 1..3 : \A i \in 1..Len(parts) : 
        ~Truthy(TierCandidate(t, parts[i]))

\* C11: when no part of the row qualifies for tiers 1 to 3, the extraction
\* returns the finalised text of the first part, in split order, whose
\* lower-case form is not an exclude term and whose length exceeds 3; when
\* the row has no such part it returns the empty string.
C11_FirstNonGenericPart ==
    (pc = "extracted" /\ IsStr(arg) /\ NoAddressTier(split_parts(arg)))
        => IF Eligible(split_parts(arg)) = {}
           THEN ret = Str(<<>>)
           ELSE ret = finalise_location(
                        split_parts(arg)[Least(Eligible(split_parts(arg)))])

\* A row whose first part is an exclude term and whose second part is
\* returned by the last loop.
C11_Witness ==
    /\ pc = "extracted"
    /\ arg = Str(JoinParts(<< << "s", "h", "o", "p" >>, << "S", "k", "l",
                                                           "e", "p", " ",
                                                           "A", "B", "C" >> >>))
    /\ tier = 4
    /\ part = 2
    /\ ret = finalise_location(<< "S", "k", "l", "e", "p", " ", "A", "B",
                                  "C" >>)
    /\ ret.s # <<>>

(***************************************************************************)
(* The form of the links                                                   *)
(***************************************************************************)
\* The unreserved characters of RFC 3986.
Unreserved == LowerLetters \cup UpperLetters \cup Digits \cup { "-", ".", "_", "~" }

HexDigits == Digits \cup { "A", "B", "C", "D", "E", "F" }

\* Every character of s is unreserved or opens a %XX escape.
IsPercentEncoded(s) ==
    \A i \in 1..Len(s) :
        \/ s[i] \in Unreserved
        \/ /\ s[i] = "%"
           /\ i + 2 <= Len(s)
           /\ s[i + 1] \in HexDigits
           /\ s[i + 2] \in HexDigits

\* The part of a link after the fixed prefix.
LinkSuffix(url) == From(url, Len(MAPS_SEARCH_URL) + 1)

\* C12: in every link create_google_maps_link returns, the part after
\* 'https://www.google.com/maps/search/' consists only of unreserved
\* characters and percent escapes: spaces, reserved characters such as
\* ',', '/', '?', '#', '&' and non-ASCII characters are all encoded.
C12_OnlyUnreservedAndEscapes ==
    (pc = "built" /\ IsStr(ret) /\ ret.s # <<>>)
        => IsPercentEncoded(LinkSuffix(ret.s))

\* urllib.parse.unquote(s): each escape sequence of the table replaced by
\* its character, any other '%' kept.
RECURSIVE Unquote(_)
Unquote(s) ==
    LET m == LeastOrZero({ j \in 1..Len(s) : s[j] = "%" })
        cs == { c \in DOMAIN PercentEscape : MatchAt(s, m, PercentEscape[c]) }
        c == CHOOSE x \in cs :
                 \A y \in cs : Len(PercentEscape[y]) <= Len(PercentEscape[x])
    IN  IF m = 0 THEN s
        ELSE IF cs = {} THEN SubSeq(s, 1, m) \o Unquote(From(s, m + 1))
        ELSE SubSeq(s, 1, m - 1) \o << c >>
                 \o Unquote(From(s, m + Len(PercentEscape[c])))

\* C13: every str create_google_maps_link returns is either empty or the
\* fixed prefix followed by a non-empty text that is the percent-encoding
\* of a non-empty location.
C13_EmptyOrPrefixedLink ==
    (pc = "built" /\ IsStr(ret))
        => \/ ret.s = <<>>
           \/ /\ MatchAt(ret.s, 1, MAPS_SEARCH_URL)
              /\ LinkSuffix(ret.s) # <<>>
              /\ Unquote(LinkSuffix(ret.s)) # <<>>
              /\ Quote(Unquote(LinkSuffix(ret.s))) = LinkSuffix(ret.s)

\* A text that passes the validation and is emptied by the cleanup: the
\* call returns '' and not the bare prefix.
C13_Witness ==
    /\ pc = "built"
    /\ IsStr(arg)
    /\ PassesGate(Strip(arg.s))
    /\ MapsText(Strip(arg.s)) = <<>>
    /\ ret = Str(<<>>)

(***************************************************************************)
(* Arguments: short texts of spaces, tabs, commas, words, a street token,  *)
(* a digit and an accented letter, without colons                          *)
(***************************************************************************)
CleanFragments ==
    { << " " >>,
      << "\t" >>,
      << "," >>,
      << "a" >>,
      << "u", "l", "." >>,
      << "1" >>,
      << "U+00F3" >> }

InitClean == InitWith({ Str(x) : x \in Concats(CleanFragments, MaxFragments) })

SpecClean == InitClean /\ [][Next]_vars

HasWhitespaceRun(s) ==
    \E i \in 1..(Len(s) - 1) : IsSpace(s[i]) /\ IsSpace(s[i + 1])

HasLeadingPrefix(s) ==
    \E k \in 1..Len(PREFIXES_TO_REMOVE) : MatchAtCI(s, 1, PREFIXES_TO_REMOVE[k])

\* A clean location in the words of the contract: no colon, no whitespace
\* run, no repeated comma, no leading or trailing space or comma, no leading
\* metadata prefix.
IsClean(s) ==
    /\ s # <<>>
    /\ \A i \in 1..Len(s) : s[i] # ":"
    /\ ~HasWhitespaceRun(s)
    /\ ~HasDuplicateComma(s)
    /\ ~IsSpace(s[1]) /\ s[1] # ","
    /\ ~IsSpace(s[Len(s)]) /\ s[Len(s)] # ","
    /\ ~HasLeadingPrefix(s)

\* A clean location whose only whitespace characters are spaces.
IsCleanSingleSpaced(s) ==
    IsClean(s) /\ \A i \in 1..Len(s) : IsSpace(s[i]) => s[i] = " "

\* The link of the text s itself, and its suffix decodes to s.
IsLinkOfText(url, s) ==
    /\ url = Str(MAPS_SEARCH_URL \o Quote(s))
    /\ Unquote(LinkSuffix(url.s)) = s

StreetRows ==
    { StructuredText(r) :
        r \in { q \in StructuredInputs :
                  ContainsAny(Lower(q.A), MAPS_STREET_TOKENS) /\ q.C # <<>> } }

IsLink(v) ==
    /\ IsStr(v)
    /\ MatchAt(v.s, 1, MAPS_SEARCH_URL)
    /\ Len(v.s) > Len(MAPS_SEARCH_URL)

HeuristicParts ==
    { << "c", "e", "n", "t", "r", "u", "m" >>,
      << "P", "L", "A", "Z", "A" >>,
      << "a", " ", "b", " ", "1" >>,
      << "a", " ", "b", " ", "c" >>,
      << "a", "b", "c", "d", "e", "f", "g", "1" >>,
      << "a", "b", "c", "d", "e", "f", "g", "h", "1" >>,
      << "a", "b", "c", "d", "e", "f", "g", "h", "i" >>,
      << "k", "i", "o", "s", "k" >>,
      << "s", "h", "o", "p" >>,
      << "x", " ", "-", " ", "R", "y", "n", "e", "k" >> }

HeuristicTexts ==
    { JoinParts(ps) :
        ps \in UNION { [1..n -> HeuristicParts] : n \in 1..MaxParts } }

InitHeuristic == InitWith({ Str(x) : x \in HeuristicTexts })

SpecHeuristic == InitHeuristic /\ [][Next]_vars

\* A 'word word digits' sequence: a word character, blanks, a run of word
\* characters, blanks, a digit.
WordWordDigits(p) ==
    \E a, b, c, d \in 1..Len(p) :
        /\ a + 1 < b /\ b <= c /\ c + 1 < d
        /\ IsWord(p[a])
        /\ \A k \in (a + 1)..(b - 1) : IsSpace(p[k])
        /\ \A k \in b..c : IsWord(p[k])
        /\ \A k \in (c + 1)..(d - 1) : IsSpace(p[k])
        /\ IsDigit(p[d])

\* The tier-3 address heuristic as the specification words it, the tokens
\* looked up in the lower-case form of the part.
AddressHeuristic(p) ==
    /\ Lower(p) \notin EXCLUDE_TERMS
    /\ \/ \E k \in 1..Len(ADDRESS_INDICATORS) :
             Contains(Lower(p), ADDRESS_INDICATORS[k])
       \/ WordWordDigits(p)
       \/ (\E i \in 1..Len(p) : IsDigit(p[i])) /\ Len(p) > 8

\* No part of the row is a structured block or a dash pattern.
NoStructuredOrDash(parts) ==
    \A t \in 1..2 : \A i \in 1..Len(parts) :
        ~Truthy(TierCandidate(t, parts[i]))

\* C26: a part satisfies the tier-3 address heuristic if and only if its
\* lower-case form is not an exclude term and it contains an
\* address-indicator token, or a 'word word digits' sequence, or a digit
\* while being longer than 8 characters; when tiers 1 and 2 select nothing,
\* the extraction returns the finalised first part that satisfies it.
C26_AddressHeuristic ==
    (pc = "extracted" /\ IsStr(arg)) =>
        LET parts == split_parts(arg)
            hits == { i \in 1..Len(parts) : AddressHeuristic(parts[i]) }
        IN  /\ \A i \in 1..Len(parts) :
                  Truthy(TierCandidate(3, parts[i])) <=> i \in hits
            /\ tier = 3 => part \in hits
            /\ NoStructuredOrDash(parts) =>
                  IF hits = {} THEN tier \in { 0, 4 }
                  ELSE /\ tier = 3
                       /\ part = Least(hits)
                       /\ ret = finalise_location(parts[Least(hits)])

\* The second part is returned as an address for its digit and its nine
\* characters; the first, one character shorter, is not.
C26_Witness ==
    /\ pc = "extracted"
    /\ arg = Str(JoinParts(<< << "a", "b", "c", "d", "e", "f", "g", "1" >>, << "a",
                                                                               "b",
                                                                               "c",
                                                                               "d",
                                                                               "e",
                                                                               "f",
                                                                               "g",
                                                                               "h",
                                                                               "1" >> >>))
    /\ tier = 3
    /\ part = 2
    /\ ret = Str(<< "a", "b", "c", "d", "e", "f", "g", "h", "1" >>)

\* ---------------------------------------------------------------------
\* Locations that begin with up to MaxPrefixes metadata prefixes, in either
\* spelling and in any letter case, before an address.
MaxPrefixes == 2

PrefixSpellings ==
    { << "l", "o", "k", "a", "l", "i", "z", "a", "c", "j", "a", ":", " " >>, << "L",
                                                                                "O",
                                                                                "K",
                                                                                "A",
                                                                                "L",
                                                                                "I",
                                                                                "Z",
                                                                                "A",
                                                                                "C",
                                                                                "J",
                                                                                "A",
                                                                                " ",
                                                                                ":" >>, << "a",
                                                                                                                                                                                                                                                                                                                                                                                                                                                                                                                                                                                                                                                                                                                                                                                                                                                                                                                                                                                                                                                                                                                                                       "d",
                                                                                                                                                                                                                                                                                                                                                                                                                                                                                                                                                                                                                                                                                                                                                                                                                                                                                                                                                                                                                                                                                                                                                       "r",
                                                                                                                                                                                                                                                                                                                                                                                                                                                                                                                                                                                                                                                                                                                                                                                                                                                                                                                                                                                                                                                                                                                                                       "e",
                                                                                                                                                                                                                                                                                                                                                                                                                                                                                                                                                                                                                                                                                                                                                                                                                                                                                                                                                                                                                                                                                                                                                       "s",
                                                                                                                                                                                                                                                                                                                                                                                                                                                                                                                                                                                                                                                                                                                                                                                                                                                                                                                                                                                                                                                                                                                                                       ":",
                                                                                                                                                                                                                                                                                                                                                                                                                                                                                                                                                                                                                                                                                                                                                                                                                                                                                                                                                                                                                                                                                                                                                       " " >>, << "A",
                                                                                                                                                                                                                                                                                                                                                                                                                                                                                                                                                                                                                                                                                                                                                                                                                                                                                                                                                                                                                                                                                                                                                                                                                                                                                                                                                                                                                                                                                                                                                                                                                                                                                                                                                                                                                                                                                                                                                                                                                                                                                                                                                                                                                                                                                                                                                                                                                                                                                                                                                                                                                                                                                                                                                                                                                                                                                                                                                                                                                                                                                                                                                                                                                                                                                                                                                                                                                                                                                                                                                                                                                                                                                                                                                                                                                                                                                                                                                                                                                                                                                                                                                                                                                                                                                                                                                                                                                                                                                                                                                                                                                                                                                                                                                                                                                                                                                                                                                                                                                                                                                                                                                                                                                                                                                                                                                                                                                                                                                                                                                                                                                                                                                                                                                                                                                                                                                                                                                                                                                                                                                                                                                                                                                                                                                                                                                                                                                                                                                                                                                                                                                                                                                                                                                                                                                                                                                                                                                                                                                                                                                                                                                                                                                                                                                                                                                                                                                                                                                                                                                                                                                                                                                                                                                                                                                                                                                                                                                                                                                                                                                                                                          "d",
                                                                                                                                                                                                                                                                                                                                                                                                                                                                                                                                                                                                                                                                                                                                                                                                                                                                                                                                                                                                                                                                                                                                                                                                                                                                                                                                                                                                                                                                                                                                                                                                                                                                                                                                                                                                                                                                                                                                                                                                                                                                                                                                                                                                                                                                                                                                                                                                                                                                                                                                                                                                                                                                                                                                                                                                                                                                                                                                                                                                                                                                                                                                                                                                                                                                                                                                                                                                                                                                                                                                                                                                                                                                                                                                                                                                                                                                                                                                                                                                                                                                                                                                                                                                                                                                                                                                                                                                                                                                                                                                                                                                                                                                                                                                                                                                                                                                                                                                                                                                                                                                                                                                                                                                                                                                                                                                                                                                                                                                                                                                                                                                                                                                                                                                                                                                                                                                                                                                                                                                                                                                                                                                                                                                                                                                                                                                                                                                                                                                                                                                                                                                                                                                                                                                                                                                                                                                                                                                                                                                                                                                                                                                                                                                                                                                                                                                                                                                                                                                                                                                                                                                                                                                                                                                                                                                                                                                                                                                                                                                                                                                                                                                          "r",
                                                                                                                                                                                                                                                                                                                                                                                                                                                                                                                                                                                                                                                                                                                                                                                                                                                                                                                                                                                                                                                                                                                                                                                                                                                                                                                                                                                                                                                                                                                                                                                                                                                                                                                                                                                                                                                                                                                                                                                                                                                                                                                                                                                                                                                                                                                                                                                                                                                                                                                                                                                                                                                                                                                                                                                                                                                                                                                                                                                                                                                                                                                                                                                                                                                                                                                                                                                                                                                                                                                                                                                                                                                                                                                                                                                                                                                                                                                                                                                                                                                                                                                                                                                                                                                                                                                                                                                                                                                                                                                                                                                                                                                                                                                                                                                                                                                                                                                                                                                                                                                                                                                                                                                                                                                                                                                                                                                                                                                                                                                                                                                                                                                                                                                                                                                                                                                                                                                                                                                                                                                                                                                                                                                                                                                                                                                                                                                                                                                                                                                                                                                                                                                                                                                                                                                                                                                                                                                                                                                                                                                                                                                                                                                                                                                                                                                                                                                                                                                                                                                                                                                                                                                                                                                                                                                                                                                                                                                                                                                                                                                                                                                                          "e",
                                                                                                                                                                                                                                                                                                                                                                                                                                                                                                                                                                                                                                                                                                                                                                                                                                                                                                                                                                                                                                                                                                                                                                                                                                                                                                                                                                                                                                                                                                                                                                                                                                                                                                                                                                                                                                                                                                                                                                                                                                                                                                                                                                                                                                                                                                                                                                                                                                                                                                                                                                                                                                                                                                                                                                                                                                                                                                                                                                                                                                                                                                                                                                                                                                                                                                                                                                                                                                                                                                                                                                                                                                                                                                                                                                                                                                                                                                                                                                                                                                                                                                                                                                                                                                                                                                                                                                                                                                                                                                                                                                                                                                                                                                                                                                                                                                                                                                                                                                                                                                                                                                                                                                                                                                                                                                                                                                                                                                                                                                                                                                                                                                                                                                                                                                                                                                                                                                                                                                                                                                                                                                                                                                                                                                                                                                                                                                                                                                                                                                                                                                                                                                                                                                                                                                                                                                                                                                                                                                                                                                                                                                                                                                                                                                                                                                                                                                                                                                                                                                                                                                                                                                                                                                                                                                                                                                                                                                                                                                                                                                                                                                                                          "s",
                                                                                                                                                                                                                                                                                                                                                                                                                                                                                                                                                                                                                                                                                                                                                                                                                                                                                                                                                                                                                                                                                                                                                                                                                                                                                                                                                                                                                                                                                                                                                                                                                                                                                                                                                                                                                                                                                                                                                                                                                                                                                                                                                                                                                                                                                                                                                                                                                                                                                                                                                                                                                                                                                                                                                                                                                                                                                                                                                                                                                                                                                                                                                                                                                                                                                                                                                                                                                                                                                                                                                                                                                                                                                                                                                                                                                                                                                                                                                                                                                                                                                                                                                                                                                                                                                                                                                                                                                                                                                                                                                                                                                                                                                                                                                                                                                                                                                                                                                                                                                                                                                                                                                                                                                                                                                                                                                                                                                                                                                                                                                                                                                                                                                                                                                                                                                                                                                                                                                                                                                                                                                                                                                                                                                                                                                                                                                                                                                                                                                                                                                                                                                                                                                                                                                                                                                                                                                                                                                                                                                                                                                                                                                                                                                                                                                                                                                                                                                                                                                                                                                                                                                                                                                                                                                                                                                                                                                                                                                                                                                                                                                                                                          " ",
                                                                                                                                                                                                                                                                                                                                                                                                                                                                                                                                                                                                                                                                                                                                                                                                                                                                                                                                                                                                                                                                                                                                                                                                                                                                                                                                                                                                                                                                                                                                                                                                                                                                                                                                                                                                                                                                                                                                                                                                                                                                                                                                                                                                                                                                                                                                                                                                                                                                                                                                                                                                                                                                                                                                                                                                                                                                                                                                                                                                                                                                                                                                                                                                                                                                                                                                                                                                                                                                                                                                                                                                                                                                                                                                                                                                                                                                                                                                                                                                                                                                                                                                                                                                                                                                                                                                                                                                                                                                                                                                                                                                                                                                                                                                                                                                                                                                                                                                                                                                                                                                                                                                                                                                                                                                                                                                                                                                                                                                                                                                                                                                                                                                                                                                                                                                                                                                                                                                                                                                                                                                                                                                                                                                                                                                                                                                                                                                                                                                                                                                                                                                                                                                                                                                                                                                                                                                                                                                                                                                                                                                                                                                                                                                                                                                                                                                                                                                                                                                                                                                                                                                                                                                                                                                                                                                                                                                                                                                                                                                                                                                                                                                          ":",
                                                                                                                                                                                                                                                                                                                                                                                                                                                                                                                                                                                                                                                                                                                                                                                                                                                                                                                                                                                                                                                                                                                                                                                                                                                                                                                                                                                                                                                                                                                                                                                                                                                                                                                                                                                                                                                                                                                                                                                                                                                                                                                                                                                                                                                                                                                                                                                                                                                                                                                                                                                                                                                                                                                                                                                                                                                                                                                                                                                                                                                                                                                                                                                                                                                                                                                                                                                                                                                                                                                                                                                                                                                                                                                                                                                                                                                                                                                                                                                                                                                                                                                                                                                                                                                                                                                                                                                                                                                                                                                                                                                                                                                                                                                                                                                                                                                                                                                                                                                                                                                                                                                                                                                                                                                                                                                                                                                                                                                                                                                                                                                                                                                                                                                                                                                                                                                                                                                                                                                                                                                                                                                                                                                                                                                                                                                                                                                                                                                                                                                                                                                                                                                                                                                                                                                                                                                                                                                                                                                                                                                                                                                                                                                                                                                                                                                                                                                                                                                                                                                                                                                                                                                                                                                                                                                                                                                                                                                                                                                                                                                                                                                                          " " >>, << "m",
                                                                                                                                                                                                                                                                                                                                                                                                                                                                                                                                                                                                                                                                                                                                                                                                                                                                                                                                                                                                                                                                                                                                                                                                                                                                                                                                                                                                                                                                                                                                                                                                                                                                                                                                                                                                                                                                                                                                                                                                                                                                                                                                                                                                                                                                                                                                                                                                                                                                                                                                                                                                                                                                                                                                                                                                                                                                                                                                                                                                                                                                                                                                                                                                                                                                                                                                                                                                                                                                                                                                                                                                                                                                                                                                                                                                                                                                                                                                                                                                                                                                                                                                                                                                                                                                                                                                                                                                                                                                                                                                                                                                                                                                                                                                                                                                                                                                                                                                                                                                                                                                                                                                                                                                                                                                                                                                                                                                                                                                                                                                                                                                                                                                                                                                                                                                                                                                                                                                                                                                                                                                                                                                                                                                                                                                                                                                                                                                                                                                                                                                                                                                                                                                                                                                                                                                                                                                                                                                                                                                                                                                                                                                                                                                                                                                                                                                                                                                                                                                                                                                                                                                                                                                                                                                                                                                                                                                                                                                                                                                                                                                                                                                                                                                                                                                                                                                                                                                                                                                                                                                                                                                                                                                                                                                                                                                                                                                                                                                                                                                                                                                                                                                                                                                                                                                                                                                                                                                                                                                                                                                                                                                                                                                                                                                                                                                                                                                                                                                                                                                                                                                                                                                                                                                                                                                                                                                                                                                                                                                                                                                                                                                                                                                                                                                                                                                                                                                                                                                                                                                                                                                                                                                                                                                                                                                                                                                                                                                                                                                                                                                                                                                                                                                                                                                                                                                                                                                                                                                                                                                                                                                                                                                                                                                                                                                                                                                                                                                                                                                                                                                                                                                                                                                                                                                                                                                                                                                                                                                                                                                                                                                                                                                                                                                                                                                                                                                                                                                                                                                                                                                                                                                                                                                                                                                                                                                                                                                                                                                                                                                                                                                                                                                                                                                                                                                                                                                                                                                                                                                                                                                                                                                                                                                                                                                                                                                                                                                                                                                                                                                                                                                                                                                                                                                                                                                                                                                                                                                                                                                                                                                                                                                                                                                                                                                                                                                                                                                                                                                                                                                                                                                                                                                                                                                                                                                                                                                                                                                                                                                                                                                                                                                                                                                                                                                                                                                                                                                                                                                                                                                                                                                                                                                                                                                                                                                                                                                                                                                                                                                                                                                                                                                                                                                                                                                                                                                                                                                                                                                                                                                                                                                                                                                                                                                                                                                                                                                                                                                                                                                                                                                                                                                                                                                                                                                                                                                                                                                                                                                                                                                                                                                                                                                                                                                                                                                                                                                                                                                                                                                                                                                                                                                                                                                                                                                                                                                                                                                                                                                                                                                                                                                                                                                                                                                                                                                                                                                                                                                                                                                                                                                                                                                                                                                                                                                                                                                                                                                                                                                                                                                                                                                                                                                                                                                                                                                                                                                                                                                                                                                                                                                                                                                                                                                                                                                                                                                                                                                                                                                                                                                                                                                                                                                                                                                                                                                                                                                                                                                                                                                                                                                                                                                                                                                                                                                                                                                                                                                                                                                                                                                                                                                                                                                                                                                                                                                                                                                                                                                                                                                                                                                                                                                                                                                                                                                                                                                                                                                                                                                                                                                                                                                                                                                                                                                                                                                                                                                                                                                                                                                                                                                                                                                                                                                                                                                                                                                                                                                                                                                                                                                                                                                                                                                                                                                                                                                                                                                                                                                                                                                                                                                                                                                                                                                                                                                                                                                                                                                                                                                                                                                                                                                                                                                                                                                                                                                                                                                                                                                                                                                                                                                                                                                                                                                                                                                                                                                                                                                                                                                                                                                                                                                                                                                                                                                                                                                                                                                                                                                                                                                                                                                                                                                                                                                                                                                                                                                                                                                                                                                                                                                                                                                                                                                                                                                                                                                                                                                                                                                                                                                                                                                                                                                                                                                                                                                                                                                                                                                                                                                                                                                                                                                                                                                                                                                                                                                                                                                                                                                                                                                                                                                                                                                                                                                                                                                                                                                                                                                                                                                                                                                                                                                                                                                                                                                                                                                                                                                                                                                                                                                                                                                                                                                                                                                                                                                                                                                                                                                                                                                                                                                                                                                                                                                                                                                                                                                                                                                                                                                                                                                                                                                                                                                                                                                                                                                                                                                                                                                                                                                                                                                                                                                                                                                                                                                                                                                                                                                                                                                                                                                                                                                                                                                                                                                                                                                                                                                                                                                                                                                                                                                                                                                                                                                                                                                                                                                                                                                                                                                                                                                                                                                                                                                                                                                                                                                                                                                                                                                                                                                                                                                                                                                                                                                                                                                                                                                                                                                                                                                                                                                                                                                                                                                                                                                                                                                                                                                                                                                                                                                                                                                                                                                                                                                                                                                                                                                                                                                                                                                                                                                                                                                                                                                                                                                                                                                                                                                                                                                                                                                                                                                                                                                                                                                                                                                                                                                                                                                                                                                                                                                                                                                                                                                                                                                                                                                                                                                                                                                                                                                                                                                                                                                                                                                                                                                                                                                                                                                                                                                                                                                                                                                                                                                                                                                                                                                                                                                                                                                                                                                                                                                                                                                                                                                                                                                                                                                                                                                                                                                                                                                                                                                                                                                                                                                                                                                                                                                                                                                                                                                                                                                                                                                                                                                                                                                                                                                                                                                                                                                                                                                                                                                                                                                                                                                                                                                                                                                                                                                                                                                                                                                                                                                                                                                                                                                                                                                                                                                                                                                                                                                                                                                                                                                                                                                                                                                                                                                                                                                                                                                                                                                                                                                                                                                                                                                                                                                                                                                                                                                                                                                                                                                                                                                                                                                                                                                                                                                                                                                                                                                                                                                                                                                                                                                                                                                                                                                                                                                                                                                                                                                                                                                                                                                                                                                                                                                                                                                                                                                                                                                                                                                                                                                                                                                                                                                                                                                                                                                                                                                                                                                                                                                                                                                                                                                                                                                                                                                                                                                                                                                                                                                                                                                                                                                                                                                                                                                                                                                                                                                                                                                                                                                                                                                                                                                                                                                                                                                                                                                                                                                                                                                                                                                                                                                                                                                                                                                                                                                                                                                                                                                                                                                                                                                                                                                                                                                                                                                                                                                                                                                                                                                                                                                                                                                                                                                                                                                                                                                                                                                                                                                                                                                                                                                                                                                                                                                                                                                                                                                                                                                                                                                                                                                                                                                                                                                                                                                                                                                                                                                                                                                                                                                                                                                                                                                                                                                                                                                                                                                                                                                                                                                                                                                                                                                                                                                                                                                                                                                                                                                                                                                                                                                                                                                                                                                                                                                                                                                                                                                                                                                                                                                                                                                                                                                                                                                                                                                                                                                                                                                                                                                                                                                                                                                                                                                                                                                                                                                                                                                                                                                                                                                                                                                                                                                                                                                                                                                                                                                                                                                                                                                                                                                                                                                                                                                                                                                                                                                                                                                                                                                                                                                                                                                                                                                                                                                                                                                                                                                                                                                                                                                                                                                                                                                                                                                                                                                                                                                                                                                                                                                                                                                                                                                                                                                                                                                                                                                                                                                                                                                                                                                                                                                                                                                                                                                                                                                                                                                                                                                                                                                                                                                                                                                                                                                                                                                                                                                                                                                                                                                                                                                                                                                                                                                                                                                                                                                                                                                                                                                                                                                                                                                                                                                                                                                                                                                                                                                                                                                                                                                                                                                                                                                                                                                                                                                                                                                                                                                                                                                                                                                                                                                                                                                                                                                                                                                                                                                                                                                                                                                                                                                                                                                                                                                                                                                                                                                                                                                                                                                                                                                                                                                                                                                                                                                                                                                                                                                                                                                                                                                                                                                                                                                                                                                                                                                                                                                                                                                                                                                                                                                                                                                                                                                                                                                                                                                                                                                                                                                                                                                                                                                                                                                                                                                                                                                                                                                                                                                                                                                                                                                                                                                                                                                                                                                                                                                                                                                                                                                                                                                                                                                                                                                                                                                                                                                                                                                                                                                                                                                                                                                                                                                                                                                                                                                                                                                                                                                                                                                                                                                                                                                                                                                                                                                                                                                                                                                                                                                                                                                                                                                                                                                                                                                                                                                                                                                                                                                                                                                                                                                                                                                                                                                                                                                                                                                                                                                                                                                                                                                                                                                                                                                                                                                                                                                                                                                                                                                                                                                                                                                                                                                                                                                                                                                                                                                                                                                                                                                                                                                                                                                                                                                                                                                                                                                                                                                                                                                                                                                                                                                                                                                                                                                                                                                                                                                                                                                                                                                                                                                                                                                                                                                                                                                                                                                                                                                                                                                                                                                                                                                                                                                                                                                                                                                                                                                                                                                                                                                                                                                                                                                                                                                                                                                                                                                                                                                                                                                                                                                                                                                                                                                                                                                                                                                                                                                                                                                                                                                                                                                                                                                                                                                                                                                                                                                                                                              "i",
                                                                                                                                                                                                                                                                                                                                                                                                                                                                                                                                                                                                                                                                                                                                                                                                                                                                                                                                                                                                                                                                                                                                                                                                                                                                                                                                                                                                                                                                                                                                                                                                                                                                                                                                                                                                                                                                                                                                                                                                                                                                                                                                                                                                                                                                                                                                                                                                                                                                                                                                                                                                                                                                                                                                                                                                                                                                                                                                                                                                                                                                                                                                                                                                                                                                                                                                                                                                                                                                                                                                                                                                                                                                                                                                                                                                                                                                                                                                                                                                                                                                                                                                                                                                                                                                                                                                                                                                                                                                                                                                                                                                                                                                                                                                                                                                                                                                                                                                                                                                                                                                                                                                                                                                                                                                                                                                                                                                                                                                                                                                                                                                                                                                                                                                                                                                                                                                                                                                                                                                                                                                                                                                                                                                                                                                                                                                                                                                                                                                                                                                                                                                                                                                                                                                                                                                                                                                                                                                                                                                                                                                                                                                                                                                                                                                                                                                                                                                                                                                                                                                                                                                                                                                                                                                                                                                                                                                                                                                                                                                                                                                                                                                                                                                                                                                                                                                                                                                                                                                                                                                                                                                                                                                                                                                                                                                                                                                                                                                                                                                                                                                                                                                                                                                                                                                                                                                                                                                                                                                                                                                                                                                                                                                                                                                                                                                                                                                                                                                                                                                                                                                                                                                                                                                                                                                                                                                                                                                                                                                                                                                                                                                                                                                                                                                                                                                                                                                                                                                                                                                                                                                                                                                                                                                                                                                                                                                                                                                                                                                                                                                                                                                                                                                                                                                                                                                                                                                                                                                                                                                                                                                                                                                                                                                                                                                                                                                                                                                                                                                                                                                                                                                                                                                                                                                                                                                                                                                                                                                                                                                                                                                                                                                                                                                                                                                                                                                                                                                                                                                                                                                                                                                                                                                                                                                                                                                                                                                                                                                                                                                                                                                                                                                                                                                                                                                                                                                                                                                                                                                                                                                                                                                                                                                                                                                                                                                                                                                                                                                                                                                                                                                                                                                                                                                                                                                                                                                                                                                                                                                                                                                                                                                                                                                                                                                                                                                                                                                                                                                                                                                                                                                                                                                                                                                                                                                                                                                                                                                                                                                                                                                                                                                                                                                                                                                                                                                                                                                                                                                                                                                                                                                                                                                                                                                                                                                                                                                                                                                                                                                                                                                                                                                                                                                                                                                                                                                                                                                                                                                                                                                                                                                                                                                                                                                                                                                                                                                                                                                                                                                                                                                                                                                                                                                                                                                                                                                                                                                                                                                                                                                                                                                                                                                                                                                                                                                                                                                                                                                                                                                                                                                                                                                                                                                                                                                                                                                                                                                                                                                                                                                                                                                                                                                                                                                                                                                                                                                                                                                                                                                                                                                                                                                                                                                                                                                                                                                                                                                                                                                                                                                                                                                                                                                                                                                                                                                                                                                                                                                                                                                                                                                                                                                                                                                                                                                                                                                                                                                                                                                                                                                                                                                                                                                                                                                                                                                                                                                                                                                                                                                                                                                                                                                                                                                                                                                                                                                                                                                                                                                                                                                                                                                                                                                                                                                                                                                                                                                                                                                                                                                                                                                                                                                                                                                                                                                                                                                                                                                                                                                                                                                                                                                                                                                                                                                                                                                                                                                                                                                                                                                                                                                                                                                                                                                                                                                                                                                                                                                                                                                                                                                                                                                                                                                                                                                                                                                                                                                                                                                                                                                                                                                                                                                                                                                                                                                                                                                                                                                                                                                                                                                                                                                                                                                                                                                                                                                                                                                                                                                                                                                                                                                                                                                                                                                                                                                                                                                                                                                                                                                                                                                                                                                                                                                                                                                                                                                                                                                                                                                                                                                                                                                                                                                                                                                                                                                                                                                                                                                                                                                                                                                                                                                                                                                                                                                                                                                                                                                                                                                                                                                                                                                                                                                                                                                                                                                                                                                                                                                                                                                                                                                                                                                                                                                                                                                                                                                                                                                                                                                                                                                                                                                                                                                                                                                                                                                                                                                                                                                                                                                                                                                                                                                                                                                                                                                                                                                                                                                                                                                                                                                                                                                                                                                                                                                                                                                                                                                                                                                                                                                                                                                                                                                                                                                                                                                                                                                                                                                                                                                                                                                                                                                                                                                                                                                                                                                                                                                                                                                                                                                                                                                                                                                                                                                                                                                                                                                                                                                                                                                                                                                                                                                                                                                                                                                                                                                                                                                                                                                                                                                                                                                                                                                                                                                                                                                                                                                                                                                                                                                                                                                                                                                                                                                                                                                                                                                                                                                                                                                                                                                                                                                                                                                                                                                                                                                                                                                                                                                                                                                                                                                                                                                                                                                                                                                                                                                                                                                                                                                                                                                                                                                                                                                                                                                                                                                                                                                                                                                                                                                                                                                                                                                                                                                                                                                                                                                                                                                                                                                                                                                                                                                                                                                                                                                                                                                                                                                                                                                                                                                                                                                                                                                                                                                                                                                                                                                                                                                                                                                                                                                                                                                                                                                                                                                                                                                                                                                                                                                                                                                                                                                                                                                                                                                                                                                                                                                                                                                                                                                                                                                                                                                                                                                                                                                                                                                                                                                                                                                                                                                                                                                                                                                                                                                                                                                                                                                                                                                                                                                                                                                                                                                                                                                                                                                                                                                                                                                                                                                                                                                                                                                                                                                                                                                                                                                                                                                                                                                                                                                                                                                                                                                                                                                                                                                                                                                                                                                                                                                                                                                                                                                                                                                                                                                                                                                                                                                                                                                                                                                                                                                                                                                                                                                                                                                                                                                                                                                                                                                                                                                                                                                                                                                                                                                                                                                                                                                                                                                                                                                                                                                                                                                                                                                                                                                                                                                                                                                                                                                                                                                                                                                                                                                                                                                                                                                                                                                                                                                                                                                                                                                                                                                                                                                                                                                                                                                                                                                                                                                                                                                                                                                                                                                                                                                                                                                                                                                                                                                                                                                                                                                                                                                                                                                                                                                                                                                                                                                                                                                                                                                                                                                                                                                                                                                                                                                                                                                                                                                                                                                                                                                                                                                                                                                                                                                                                                                                                                                                                                                                                                                                                                                                                                                                                                                                                                                                                                                                                                                                                                                                                                                                                                                                                                                                                                                                                                                                                                                                                                                                                                                                                                                                                                                                                                                                                                                                                                                                                                                                                                                                                                                                                                                                                                                                                                                                                                                                                                                                                                                                                                                                                                                                                                                                                                                                                                                                                                                                                                                                                                                                                                                                                                                                                                                                                                                                                                                                                                                                                                                                                                                                                                                                                                                                                                                                                                                                                                                                                                                                                                                                                                                                                                                                                                                                                                                                                                                                                                                                                                                                                                                                                                                                                                                                                                                                                                                                                                                                                                                                                                                                                                                                                                                                                                                                                                                                                                                                                                                                                                                                                                                                                                                                                                                                                                                                                                                                                                                                                                                                                                                                                                                                                                                                                                                                                                                                                                                                                                                                                                                                                                                                                                                                                                                                                                                                                                                                                                                                                                                                                                                                                                                                                                                                                                                                                                                                                                                                                                                                                                                                                                                                                                                                                                                                                                                                                                                                                                                                                                                                                                                                                                                                                                                                                                                                                                                                                                                                                                                                                                                                                                                                                                                                                                                                                                                                                                                                                                                                                                                                                                                                                                                                                                                                                                                                                                                                                                                                                                                                                                                                                                                                                                                                                                                                                                                                                                                                                                                                                                                                                                                                                                                                                                                                                                                                                                                                                                                                                                                                                                                                                                                                                                                                                                                                                                                                                                                                                                                                                                                                                                                                                                                                                                                                                                                                                                                                                                                                                                                                                                                                                                                                                                                                                                                                                                                                                                                                                                                                                                                                                                                                                                                                                                                                                                                                                                                                                                                                                                                                                                                                                                                                                                                                                                                                                                                                                                                                                                                                                                                                                                                                                                                                                                                                                                                                                                                                                                                                                                                                                                                                                                                                                                                                                                                                                                                                                                                                                                                                                                                                                                                                                                                                                                                                                                                                                                                                                                                                                                                                                                                                                                                                                                                                                                                                                                                                                                                                                                                                                                                                                                                                                                                                                                                                                                                                                                                                                                                                                                                                                                                                                                                                                                                                                                                                                                                                                                                                                                                                                                                                                                                                                                                                                                                                                                                                                                                                                                                                                                                                                                                                                                                                                                                                                                                                                                                                                                                                                                                                                                                                                                                                                                                                                                                                                                                                                                                                                                                                                                                                                                                                                                                                                                                                                                                                                                                                                                                                                                                                                                                                                                                                                                                                                                                                                                                                                                                                                                                                                                                                                                                                                                                                                                                                                                                                                                                                                                                                                                                                                                                                                                                                                                                                                                                                                                                                                                                                                                                                                                                                                                                                                                                                                                                                                                                                                                                                                                                                                                                                                                                                                                                                                                                                                                                                                                                                                                                                                                              "a",
                                                                                                                                                                                                                                                                                                                                                                                                                                                                                                                                                                                                                                                                                                                                                                                                                                                                                                                                                                                                                                                                                                                                                                                                                                                                                                                                                                                                                                                                                                                                                                                                                                                                                                                                                                                                                                                                                                                                                                                                                                                                                                                                                                                                                                                                                                                                                                                                                                                                                                                                                                                                                                                                                                                                                                                                                                                                                                                                                                                                                                                                                                                                                                                                                                                                                                                                                                                                                                                                                                                                                                                                                                                                                                                                                                                                                                                                                                                                                                                                                                                                                                                                                                                                                                                                                                                                                                                                                                                                                                                                                                                                                                                                                                                                                                                                                                                                                                                                                                                                                                                                                                                                                                                                                                                                                                                                                                                                                                                                                                                                                                                                                                                                                                                                                                                                                                                                                                                                                                                                                                                                                                                                                                                                                                                                                                                                                                                                                                                                                                                                                                                                                                                                                                                                                                                                                                                                                                                                                                                                                                                                                                                                                                                                                                                                                                                                                                                                                                                                                                                                                                                                                                                                                                                                                                                                                                                                                                                                                                                                                                                                                                                                                                                                                                                                                                                                                                                                                                                                                                                                                                                                                                                                                                                                                                                                                                                                                                                                                                                                                                                                                                                                                                                                                                                                                                                                                                                                                                                                                                                                                                                                                                                                                                                                                                                                                                                                                                                                                                                                                                                                                                                                                                                                                                                                                                                                                                                                                                                                                                                                                                                                                                                                                                                                                                                                                                                                                                                                                                                                                                                                                                                                                                                                                                                                                                                                                                                                                                                                                                                                                                                                                                                                                                                                                                                                                                                                                                                                                                                                                                                                                                                                                                                                                                                                                                                                                                                                                                                                                                                                                                                                                                                                                                                                                                                                                                                                                                                                                                                                                                                                                                                                                                                                                                                                                                                                                                                                                                                                                                                                                                                                                                                                                                                                                                                                                                                                                                                                                                                                                                                                                                                                                                                                                                                                                                                                                                                                                                                                                                                                                                                                                                                                                                                                                                                                                                                                                                                                                                                                                                                                                                                                                                                                                                                                                                                                                                                                                                                                                                                                                                                                                                                                                                                                                                                                                                                                                                                                                                                                                                                                                                                                                                                                                                                                                                                                                                                                                                                                                                                                                                                                                                                                                                                                                                                                                                                                                                                                                                                                                                                                                                                                                                                                                                                                                                                                                                                                                                                                                                                                                                                                                                                                                                                                                                                                                                                                                                                                                                                                                                                                                                                                                                                                                                                                                                                                                                                                                                                                                                                                                                                                                                                                                                                                                                                                                                                                                                                                                                                                                                                                                                                                                                                                                                                                                                                                                                                                                                                                                                                                                                                                                                                                                                                                                                                                                                                                                                                                                                                                                                                                                                                                                                                                                                                                                                                                                                                                                                                                                                                                                                                                                                                                                                                                                                                                                                                                                                                                                                                                                                                                                                                                                                                                                                                                                                                                                                                                                                                                                                                                                                                                                                                                                                                                                                                                                                                                                                                                                                                                                                                                                                                                                                                                                                                                                                                                                                                                                                                                                                                                                                                                                                                                                                                                                                                                                                                                                                                                                                                                                                                                                                                                                                                                                                                                                                                                                                                                                                                                                                                                                                                                                                                                                                                                                                                                                                                                                                                                                                                                                                                                                                                                                                                                                                                                                                                                                                                                                                                                                                                                                                                                                                                                                                                                                                                                                                                                                                                                                                                                                                                                                                                                                                                                                                                                                                                                                                                                                                                                                                                                                                                                                                                                                                                                                                                                                                                                                                                                                                                                                                                                                                                                                                                                                                                                                                                                                                                                                                                                                                                                                                                                                                                                                                                                                                                                                                                                                                                                                                                                                                                                                                                                                                                                                                                                                                                                                                                                                                                                                                                                                                                                                                                                                                                                                                                                                                                                                                                                                                                                                                                                                                                                                                                                                                                                                                                                                                                                                                                                                                                                                                                                                                                                                                                                                                                                                                                                                                                                                                                                                                                                                                                                                                                                                                                                                                                                                                                                                                                                                                                                                                                                                                                                                                                                                                                                                                                                                                                                                                                                                                                                                                                                                                                                                                                                                                                                                                                                                                                                                                                                                                                                                                                                                                                                                                                                                                                                                                                                                                                                                                                                                                                                                                                                                                                                                                                                                                                                                                                                                                                                                                                                                                                                                                                                                                                                                                                                                                                                                                                                                                                                                                                                                                                                                                                                                                                                                                                                                                                                                                                                                                                                                                                                                                                                                                                                                                                                                                                                                                                                                                                                                                                                                                                                                                                                                                                                                                                                                                                                                                                                                                                                                                                                                                                                                                                                                                                                                                                                                                                                                                                                                                                                                                                                                                                                                                                                                                                                                                                                                                                                                                                                                                                                                                                                                                                                                                                                                                                                                                                                                                                                                                                                                                                                                                                                                                                                                                                                                                                                                                                                                                                                                                                                                                                                                                                                                                                                                                                                                                                                                                                                                                                                                                                                                                                                                                                                                                                                                                                                                                                                                                                                                                                                                                                                                                                                                                                                                                                                                                                                                                                                                                                                                                                                                                                                                                                                                                                                                                                                                                                                                                                                                                                                                                                                                                                                                                                                                                                                                                                                                                                                                                                                                                                                                                                                                                                                                                                                                                                                                                                                                                                                                                                                                                                                                                                                                                                                                                                                                                                                                                                                                                                                                                                                                                                                                                                                                                                                                                                                                                                                                                                                                                                                                                                                                                                                                                                                                                                                                                                                                                                                                                                                                                                                                                                                                                                                                                                                                                                                                                                                                                                                                                                                                                                                                                                                                                                                                                                                                                                                                                                                                                                                                                                                                                                                                                                                                                                                                                                                                                                                                                                                                                                                                                                                                                                                                                                                                                                                                                                                                                                                                                                                                                                                                                                                                                                                                                                                                                                                                                                                                                                                                                                                                                                                                                                                                                                                                                                                                                                                                                                                                                                                                                                                                                                                                                                                                                                                                                                                                                                                                                                                                                                                                                                                                                                                                                                                                                                                                                                                                                                                                                                                                                                                                                                                                                                                                                                                                                                                                                                                                                                                                                                                                                                                                                                                                                                                                                                                                                                                                                                                                                                                                                                                                                                                                                                                                                                                                                                                                                                                                                                                                                                                                                                                                                                                                                                                                                                                                                                                                                                                                                                                                                                                                                                                                                                                                                                                                                                                                                                                                                                                                                                                                                                                                                                                                                                                                                                                                                                                                                                                                                                                                                                                                                                                                                                                                                                                                                                                                                                                                                                                                                                                                                                                                                                                                                                                                                                                                                                                                                                                                                                                                                                                                                                                                                                                                                                                                                                                                                                                                                                                                                                                                                                                                                                                                                                                                                                                                                                                                                                                                                                                                                                                                                                                                                                                                                                                                                                                                                                                                                                                                                                                                                                                                                                                                                                                                                                                                                                                                                                                                                                                                                                                                                                                                                                                                                                                                                                                                                                                                                                                                                                                                                                                                                                                                                                                                                                                                                                                                                                                                                                                                                                                                                                                                                                                                                                                                                                                                                                                                                                                                                                                                                                                                                                                                                                                                                                                                                                                                                                                                                                                                                                                                                                                                                                                                                                                                                                                                                                                                                                                                                                                                                                                                                                                                                                                                                                                                                                                                                                                                                                                                                                                                                                                                                                                                                                                                                                                                                                                                                                                                                                                                                                                                                                                                                                                                                                                                                                                                                                                                                                                                                                                                                                                                                                                                                                                                                                                                                                                                                                                                                                                                                                                                                                                                                                                                                                                                                                                                                                                                                                                                                                                                                                                                                                                                                                                                                                                                                                                                                                                                                                                                                                                                                                                                                                                                                                                                                                                                                                                                                                                                                                                                                                                                                                                                                                                                                                                                                                                                                                                                                                                                                                                                                                                                                                                                                                                                                                                                                                                                                                                                                                                                                                                                                                                                                                                                                                                                                                                                                                                                                                                                                                                                                                                                                                                                                                                                                                                                                                                                                                                                                                                                                                                                                                                                                                                                                                                                                                                                                                                                                                                                                                                                                                                                                                                                                                                                                                                                                                                                                                                                                                                                                                                                                                                                                                                                                                                                                                                                                                                                                                                                                                                                                                                                                                                                                                                                                                                                                                                                                                                                                                                                                                                                                                                                                                                                                                                                                                                                                                                                                                                                                                                                                                                                                                                                                                                                                                                                                                                                                                                                                                                                                                                                                                                                                                                                                                                                                                                                                                                                                                                                                                                                                                                                                                                                                                                                                                                                                                                                                                                                                                                                                                                                                                                                                                                                                                                                                                                                                                                                                                                                                                                                                                                                                                                                                                                                                                                                                                                                                                                                                                                                                                                                                                                                                                                                                                                                                                                                                                                                                                                                                                                                                                                                                                                                                                                                                                                                                                                                                                                                                                                                                                                                                                                                                                                                                                                                                                                                                                                                                                                                                                                                                                                                                                                                                                                                                                                                                                                                                                                                                                              "s",
                                                                                                                                                                                                                                                                                                                                                                                                                                                                                                                                                                                                                                                                                                                                                                                                                                                                                                                                                                                                                                                                                                                                                                                                                                                                                                                                                                                                                                                                                                                                                                                                                                                                                                                                                                                                                                                                                                                                                                                                                                                                                                                                                                                                                                                                                                                                                                                                                                                                                                                                                                                                                                                                                                                                                                                                                                                                                                                                                                                                                                                                                                                                                                                                                                                                                                                                                                                                                                                                                                                                                                                                                                                                                                                                                                                                                                                                                                                                                                                                                                                                                                                                                                                                                                                                                                                                                                                                                                                                                                                                                                                                                                                                                                                                                                                                                                                                                                                                                                                                                                                                                                                                                                                                                                                                                                                                                                                                                                                                                                                                                                                                                                                                                                                                                                                                                                                                                                                                                                                                                                                                                                                                                                                                                                                                                                                                                                                                                                                                                                                                                                                                                                                                                                                                                                                                                                                                                                                                                                                                                                                                                                                                                                                                                                                                                                                                                                                                                                                                                                                                                                                                                                                                                                                                                                                                                                                                                                                                                                                                                                                                                                                                                                                                                                                                                                                                                                                                                                                                                                                                                                                                                                                                                                                                                                                                                                                                                                                                                                                                                                                                                                                                                                                                                                                                                                                                                                                                                                                                                                                                                                                                                                                                                                                                                                                                                                                                                                                                                                                                                                                                                                                                                                                                                                                                                                                                                                                                                                                                                                                                                                                                                                                                                                                                                                                                                                                                                                                                                                                                                                                                                                                                                                                                                                                                                                                                                                                                                                                                                                                                                                                                                                                                                                                                                                                                                                                                                                                                                                                                                                                                                                                                                                                                                                                                                                                                                                                                                                                                                                                                                                                                                                                                                                                                                                                                                                                                                                                                                                                                                                                                                                                                                                                                                                                                                                                                                                                                                                                                                                                                                                                                                                                                                                                                                                                                                                                                                                                                                                                                                                                                                                                                                                                                                                                                                                                                                                                                                                                                                                                                                                                                                                                                                                                                                                                                                                                                                                                                                                                                                                                                                                                                                                                                                                                                                                                                                                                                                                                                                                                                                                                                                                                                                                                                                                                                                                                                                                                                                                                                                                                                                                                                                                                                                                                                                                                                                                                                                                                                                                                                                                                                                                                                                                                                                                                                                                                                                                                                                                                                                                                                                                                                                                                                                                                                                                                                                                                                                                                                                                                                                                                                                                                                                                                                                                                                                                                                                                                                                                                                                                                                                                                                                                                                                                                                                                                                                                                                                                                                                                                                                                                                                                                                                                                                                                                                                                                                                                                                                                                                                                                                                                                                                                                                                                                                                                                                                                                                                                                                                                                                                                                                                                                                                                                                                                                                                                                                                                                                                                                                                                                                                                                                                                                                                                                                                                                                                                                                                                                                                                                                                                                                                                                                                                                                                                                                                                                                                                                                                                                                                                                                                                                                                                                                                                                                                                                                                                                                                                                                                                                                                                                                                                                                                                                                                                                                                                                                                                                                                                                                                                                                                                                                                                                                                                                                                                                                                                                                                                                                                                                                                                                                                                                                                                                                                                                                                                                                                                                                                                                                                                                                                                                                                                                                                                                                                                                                                                                                                                                                                                                                                                                                                                                                                                                                                                                                                                                                                                                                                                                                                                                                                                                                                                                                                                                                                                                                                                                                                                                                                                                                                                                                                                                                                                                                                                                                                                                                                                                                                                                                                                                                                                                                                                                                                                                                                                                                                                                                                                                                                                                                                                                                                                                                                                                                                                                                                                                                                                                                                                                                                                                                                                                                                                                                                                                                                                                                                                                                                                                                                                                                                                                                                                                                                                                                                                                                                                                                                                                                                                                                                                                                                                                                                                                                                                                                                                                                                                                                                                                                                                                                                                                                                                                                                                                                                                                                                                                                                                                                                                                                                                                                                                                                                                                                                                                                                                                                                                                                                                                                                                                                                                                                                                                                                                                                                                                                                                                                                                                                                                                                                                                                                                                                                                                                                                                                                                                                                                                                                                                                                                                                                                                                                                                                                                                                                                                                                                                                                                                                                                                                                                                                                                                                                                                                                                                                                                                                                                                                                                                                                                                                                                                                                                                                                                                                                                                                                                                                                                                                                                                                                                                                                                                                                                                                                                                                                                                                                                                                                                                                                                                                                                                                                                                                                                                                                                                                                                                                                                                                                                                                                                                                                                                                                                                                                                                                                                                                                                                                                                                                                                                                                                                                                                                                                                                                                                                                                                                                                                                                                                                                                                                                                                                                                                                                                                                                                                                                                                                                                                                                                                                                                                                                                                                                                                                                                                                                                                                                                                                                                                                                                                                                                                                                                                                                                                                                                                                                                                                                                                                                                                                                                                                                                                                                                                                                                                                                                                                                                                                                                                                                                                                                                                                                                                                                                                                                                                                                                                                                                                                                                                                                                                                                                                                                                                                                                                                                                                                                                                                                                                                                                                                                                                                                                                                                                                                                                                                                                                                                                                                                                                                                                                                                                                                                                                                                                                                                                                                                                                                                                                                                                                                                                                                                                                                                                                                                                                                                                                                                                                                                                                                                                                                                                                                                                                                                                                                                                                                                                                                                                                                                                                                                                                                                                                                                                                                                                                                                                                                                                                                                                                                                                                                                                                                                                                                                                                                                                                                                                                                                                                                                                                                                                                                                                                                                                                                                                                                                                                                                                                                                                                                                                                                                                                                                                                                                                                                                                                                                                                                                                                                                                                                                                                                                                                                                                                                                                                                                                                                                                                                                                                                                                                                                                                                                                                                                                                                                                                                                                                                                                                                                                                                                                                                                                                                                                                                                                                                                                                                                                                                                                                                                                                                                                                                                                                                                                                                                                                                                                                                                                                                                                                                                                                                                                                                                                                                                                                                                                                                                                                                                                                                                                                                                                                                                                                                                                                                                                                                                                                                                                                                                                                                                                                                                                                                                                                                                                                                                                                                                                                                                                                                                                                                                                                                                                                                                                                                                                                                                                                                                                                                                                                                                                                                                                                                                                                                                                                                                                                                                                                                                                                                                                                                                                                                                                                                                                                                                                                                                                                                                                                                                                                                                                                                                                                                                                                                                                                                                                                                                                                                                                                                                                                                                                                                                                                                                                                                                                                                                                                                                                                                                                                                                                                                                                                                                                                                                                                                                                                                                                                                                                                                                                                                                                                                                                                                                                                                                                                                                                                                                                                                                                                                                                                                                                                                                                                                                                                                                                                                                                                                                                                                                                                                                                                                                                                                                                                                                                                                                                                                                                                                                                                                                                                                                                                                                                                                                                                                                                                                                                                                                                                                                                                                                                                                                                                                                                                                                                                                                                                                                                                                                                                                                                                                                                                                                                                                                                                                                                                                                                                                                                                                                                                                                                                                                                                                                                                                                                                                                                                                                                                                                                                                                                                                                                                                                                                                                                                                                                                                                                                                                                                                                                                                                                                                                                                                                                                                                                                                                                                                                                                                                                                                                                                                                                                                                                                                                                                                                                                                                                                                                                                                                                                                                                                                                                                                                                                                                                                                                                                                                                                                                                                                                                                                                                                                                                                                                                                                                                                                                                                                                                                                                                                                                                                                                                                                                                                                                                                                                                                                                                                                                                                                                                                                                                                                                                                                                                                                                                                                                                                                                                                                                                                                                                                                                                                                                                                                                                                                                                                                                                                                                                                                                                                                                                                                                                                                                                                                                                                                                                                                                                                                                                                                                                                                                                                                                                                                                                                                                                                                                                                                                                                                                                                                                                                                                                                                                                                                                                                                                                                                                                                                                                                                                                                                                                                                                                                                                                                                                                                                                                                                                                                                                                                                                                                                                                                                                                                                                                                                                                                                                                                                                                                                                                                                                                                                                                                                                                                                                                                                                                                                                                                                                                                                                                                                                                                                                                                                                                                                                                                                                                                                                                                                                                                                                                                                                                                                                                                                                                                                                                                                                                                                                                                                                                                                                                                                                                                                                                                                                                                                                                                                                                                                                                                                                                                                                                                                                                                                                                                                                                                                                                                                                                                                                                                                                                                                                                                                                                                                                                                                                                                                                                                                                                                                                                                                                                                                                                                                                                                                                                                                                                                                                                                                                                                                                                                                                                                                                                                                                                                                                                                                                                                                                                                                                                                                                                                                                                                                                                                                                                                                                                                                                                                                                                                                                                                                                                                                                                                                                                                                                                                                                                                                                                                                                                                                                                                                                                                                                                                                                                                                                                                                                                                                                                                                                                                                                                                                                                                                                                                                                                                                                                                                                                                                                                                                                                                                                                                                                                                                                                                                                                                                                                                                                                                                                                                                                                                                                                                                                                                                                                                                                                                                                                                                                                                                                                                                                                                                                                                                                                                                                                                                                                                                                                                                                                                                                                                                                                                                                                                                                                                                                                                                                                                                                                                                                                                                                                                                                                                                                                                                                                                                                                                                                                                                              "t",
                                                                                                                                                                                                                                                                                                                                                                                                                                                                                                                                                                                                                                                                                                                                                                                                                                                                                                                                                                                                                                                                                                                                                                                                                                                                                                                                                                                                                                                                                                                                                                                                                                                                                                                                                                                                                                                                                                                                                                                                                                                                                                                                                                                                                                                                                                                                                                                                                                                                                                                                                                                                                                                                                                                                                                                                                                                                                                                                                                                                                                                                                                                                                                                                                                                                                                                                                                                                                                                                                                                                                                                                                                                                                                                                                                                                                                                                                                                                                                                                                                                                                                                                                                                                                                                                                                                                                                                                                                                                                                                                                                                                                                                                                                                                                                                                                                                                                                                                                                                                                                                                                                                                                                                                                                                                                                                                                                                                                                                                                                                                                                                                                                                                                                                                                                                                                                                                                                                                                                                                                                                                                                                                                                                                                                                                                                                                                                                                                                                                                                                                                                                                                                                                                                                                                                                                                                                                                                                                                                                                                                                                                                                                                                                                                                                                                                                                                                                                                                                                                                                                                                                                                                                                                                                                                                                                                                                                                                                                                                                                                                                                                                                                                                                                                                                                                                                                                                                                                                                                                                                                                                                                                                                                                                                                                                                                                                                                                                                                                                                                                                                                                                                                                                                                                                                                                                                                                                                                                                                                                                                                                                                                                                                                                                                                                                                                                                                                                                                                                                                                                                                                                                                                                                                                                                                                                                                                                                                                                                                                                                                                                                                                                                                                                                                                                                                                                                                                                                                                                                                                                                                                                                                                                                                                                                                                                                                                                                                                                                                                                                                                                                                                                                                                                                                                                                                                                                                                                                                                                                                                                                                                                                                                                                                                                                                                                                                                                                                                                                                                                                                                                                                                                                                                                                                                                                                                                                                                                                                                                                                                                                                                                                                                                                                                                                                                                                                                                                                                                                                                                                                                                                                                                                                                                                                                                                                                                                                                                                                                                                                                                                                                                                                                                                                                                                                                                                                                                                                                                                                                                                                                                                                                                                                                                                                                                                                                                                                                                                                                                                                                                                                                                                                                                                                                                                                                                                                                                                                                                                                                                                                                                                                                                                                                                                                                                                                                                                                                                                                                                                                                                                                                                                                                                                                                                                                                                                                                                                                                                                                                                                                                                                                                                                                                                                                                                                                                                                                                                                                                                                                                                                                                                                                                                                                                                                                                                                                                                                                                                                                                                                                                                                                                                                                                                                                                                                                                                                                                                                                                                                                                                                                                                                                                                                                                                                                                                                                                                                                                                                                                                                                                                                                                                                                                                                                                                                                                                                                                                                                                                                                                                                                                                                                                                                                                                                                                                                                                                                                                                                                                                                                                                                                                                                                                                                                                                                                                                                                                                                                                                                                                                                                                                                                                                                                                                                                                                                                                                                                                                                                                                                                                                                                                                                                                                                                                                                                                                                                                                                                                                                                                                                                                                                                                                                                                                                                                                                                                                                                                                                                                                                                                                                                                                                                                                                                                                                                                                                                                                                                                                                                                                                                                                                                                                                                                                                                                                                                                                                                                                                                                                                                                                                                                                                                                                                                                                                                                                                                                                                                                                                                                                                                                                                                                                                                                                                                                                                                                                                                                                                                                                                                                                                                                                                                                                                                                                                                                                                                                                                                                                                                                                                                                                                                                                                                                                                                                                                                                                                                                                                                                                                                                                                                                                                                                                                                                                                                                                                                                                                                                                                                                                                                                                                                                                                                                                                                                                                                                                                                                                                                                                                                                                                                                                                                                                                                                                                                                                                                                                                                                                                                                                                                                                                                                                                                                                                                                                                                                                                                                                                                                                                                                                                                                                                                                                                                                                                                                                                                                                                                                                                                                                                                                                                                                                                                                                                                                                                                                                                                                                                                                                                                                                                                                                                                                                                                                                                                                                                                                                                                                                                                                                                                                                                                                                                                                                                                                                                                                                                                                                                                                                                                                                                                                                                                                                                                                                                                                                                                                                                                                                                                                                                                                                                                                                                                                                                                                                                                                                                                                                                                                                                                                                                                                                                                                                                                                                                                                                                                                                                                                                                                                                                                                                                                                                                                                                                                                                                                                                                                                                                                                                                                                                                                                                                                                                                                                                                                                                                                                                                                                                                                                                                                                                                                                                                                                                                                                                                                                                                                                                                                                                                                                                                                                                                                                                                                                                                                                                                                                                                                                                                                                                                                                                                                                                                                                                                                                                                                                                                                                                                                                                                                                                                                                                                                                                                                                                                                                                                                                                                                                                                                                                                                                                                                                                                                                                                                                                                                                                                                                                                                                                                                                                                                                                                                                                                                                                                                                                                                                                                                                                                                                                                                                                                                                                                                                                                                                                                                                                                                                                                                                                                                                                                                                                                                                                                                                                                                                                                                                                                                                                                                                                                                                                                                                                                                                                                                                                                                                                                                                                                                                                                                                                                                                                                                                                                                                                                                                                                                                                                                                                                                                                                                                                                                                                                                                                                                                                                                                                                                                                                                                                                                                                                                                                                                                                                                                                                                                                                                                                                                                                                                                                                                                                                                                                                                                                                                                                                                                                                                                                                                                                                                                                                                                                                                                                                                                                                                                                                                                                                                                                                                                                                                                                                                                                                                                                                                                                                                                                                                                                                                                                                                                                                                                                                                                                                                                                                                                                                                                                                                                                                                                                                                                                                                                                                                                                                                                                                                                                                                                                                                                                                                                                                                                                                                                                                                                                                                                                                                                                                                                                                                                                                                                                                                                                                                                                                                                                                                                                                                                                                                                                                                                                                                                                                                                                                                                                                                                                                                                                                                                                                                                                                                                                                                                                                                                                                                                                                                                                                                                                                                                                                                                                                                                                                                                                                                                                                                                                                                                                                                                                                                                                                                                                                                                                                                                                                                                                                                                                                                                                                                                                                                                                                                                                                                                                                                                                                                                                                                                                                                                                                                                                                                                                                                                                                                                                                                                                                                                                                                                                                                                                                                                                                                                                                                                                                                                                                                                                                                                                                                                                                                                                                                                                                                                                                                                                                                                                                                                                                                                                                                                                                                                                                                                                                                                                                                                                                                                                                                                                                                                                                                                                                                                                                                                                                                                                                                                                                                                                                                                                                                                                                                                                                                                                                                                                                                                                                                                                                                                                                                                                                                                                                                                                                                                                                                                                                                                                                                                                                                                                                                                                                                                                                                                                                                                                                                                                                                                                                                                                                                                                                                                                                                                                                                                                                                                                                                                                                                                                                                                                                                                                                                                                                                                                                                                                                                                                                                                                                                                                                                                                                                                                                                                                                                                                                                                                                                                                                                                                                                                                                                                                                                                                                                                                                                                                                                                                                                                                                                                                                                                                                                                                                                                                                                                                                                                                                                                                                                                                                                                                                                                                                                                                                                                                                                                                                                                                                                                                                                                                                                                                                                                                                                                                                                                                                                                                                                                                                                                                                                                                                                                                                                                                                                                                                                                                                                                                                                                                                                                                                                                                                                                                                                                                                                                                                                                                                                                                                                                                                                                                                                                                                                                                                                                                                                                                                                                                                                                                                                                                                                                                                                                                                                                                                                                                                                                                                                                                                                                                                                                                                                                                                                                                                                                                                                                                                                                                                                                                                                                                                                                                                                                                                                                                                                                                                                                                                                                                                                                                                                                                                                                                                                                                                                                                                                                                                                                                                                                                                                                                                                                                                                                                                                                                                                                                                                                                                                                                                                                                                                                                                                                                                                                                                                                                                                                                                                                                                                                                                                                                                                                                                                                                                                                                                                                                                                                                                                                                                                                                                                                                                                                                                                                                                                                                                                                                                                                                                                                                                                                                                                                                                                                                                                                                                                                                                                                                                                                                                                                                                                                                                                                                                                                                                                                                                                                                                                                                                                                                                                                                                                                                                                                                                                                                                                                                                                                                                                                                                                                                                                                                                                                                                                                                                                                                                                                                                                                                                                                                                                                                                                                                                                                                                                                                                                                                                                                                                                                                                                                                                                                                                                                                                                                                                                                                                                                                                                                                                                                                                                                                                                                                                                                                                                                                                                                                                                                                                                                                                                                                                                                                                                                                                                                                                                                                                                                                                                                                                                                                                                                                                                                                                                                                                                                                                                                                                                                                                                                                                                                                                                                                                                                                                                                                                                                                                                                                                                                                                                                                                                                                                                                                                                                                                                                                                                                                                                                                                                                                                                                                                                                                                                                                                                                                                                                                                                                                                                                                                                                                                                                                                                                                                                                                                                                                                                                                                                                                                                                                                                                                                                                                                                                                                                                                                                                                                                                                                                                                                                                                                                                                                                                                                                                                                                                                                                                                                                                                                                                                                                                                                                                                                                                                                                                                                                                                                                                                                                                                                                                                                                                                                                                                                                                                                                                                                                                                                                                                                                                                                                                                                                                                                                                                                                                                                                                                                                                                                                                                                                                                                                                                                                                                                                                                                                                                                                                                                                              "o",
                                                                                                                                                                                                                                                                                                                                                                                                                                                                                                                                                                                                                                                                                                                                                                                                                                                                                                                                                                                                                                                                                                                                                                                                                                                                                                                                                                                                                                                                                                                                                                                                                                                                                                                                                                                                                                                                                                                                                                                                                                                                                                                                                                                                                                                                                                                                                                                                                                                                                                                                                                                                                                                                                                                                                                                                                                                                                                                                                                                                                                                                                                                                                                                                                                                                                                                                                                                                                                                                                                                                                                                                                                                                                                                                                                                                                                                                                                                                                                                                                                                                                                                                                                                                                                                                                                                                                                                                                                                                                                                                                                                                                                                                                                                                                                                                                                                                                                                                                                                                                                                                                                                                                                                                                                                                                                                                                                                                                                                                                                                                                                                                                                                                                                                                                                                                                                                                                                                                                                                                                                                                                                                                                                                                                                                                                                                                                                                                                                                                                                                                                                                                                                                                                                                                                                                                                                                                                                                                                                                                                                                                                                                                                                                                                                                                                                                                                                                                                                                                                                                                                                                                                                                                                                                                                                                                                                                                                                                                                                                                                                                                                                                                                                                                                                                                                                                                                                                                                                                                                                                                                                                                                                                                                                                                                                                                                                                                                                                                                                                                                                                                                                                                                                                                                                                                                                                                                                                                                                                                                                                                                                                                                                                                                                                                                                                                                                                                                                                                                                                                                                                                                                                                                                                                                                                                                                                                                                                                                                                                                                                                                                                                                                                                                                                                                                                                                                                                                                                                                                                                                                                                                                                                                                                                                                                                                                                                                                                                                                                                                                                                                                                                                                                                                                                                                                                                                                                                                                                                                                                                                                                                                                                                                                                                                                                                                                                                                                                                                                                                                                                                                                                                                                                                                                                                                                                                                                                                                                                                                                                                                                                                                                                                                                                                                                                                                                                                                                                                                                                                                                                                                                                                                                                                                                                                                                                                                                                                                                                                                                                                                                                                                                                                                                                                                                                                                                                                                                                                                                                                                                                                                                                                                                                                                                                                                                                                                                                                                                                                                                                                                                                                                                                                                                                                                                                                                                                                                                                                                                                                                                                                                                                                                                                                                                                                                                                                                                                                                                                                                                                                                                                                                                                                                                                                                                                                                                                                                                                                                                                                                                                                                                                                                                                                                                                                                                                                                                                                                                                                                                                                                                                                                                                                                                                                                                                                                                                                                                                                                                                                                                                                                                                                                                                                                                                                                                                                                                                                                                                                                                                                                                                                                                                                                                                                                                                                                                                                                                                                                                                                                                                                                                                                                                                                                                                                                                                                                                                                                                                                                                                                                                                                                                                                                                                                                                                                                                                                                                                                                                                                                                                                                                                                                                                                                                                                                                                                                                                                                                                                                                                                                                                                                                                                                                                                                                                                                                                                                                                                                                                                                                                                                                                                                                                                                                                                                                                                                                                                                                                                                                                                                                                                                                                                                                                                                                                                                                                                                                                                                                                                                                                                                                                                                                                                                                                                                                                                                                                                                                                                                                                                                                                                                                                                                                                                                                                                                                                                                                                                                                                                                                                                                                                                                                                                                                                                                                                                                                                                                                                                                                                                                                                                                                                                                                                                                                                                                                                                                                                                                                                                                                                                                                                                                                                                                                                                                                                                                                                                                                                                                                                                                                                                                                                                                                                                                                                                                                                                                                                                                                                                                                                                                                                                                                                                                                                                                                                                                                                                                                                                                                                                                                                                                                                                                                                                                                                                                                                                                                                                                                                                                                                                                                                                                                                                                                                                                                                                                                                                                                                                                                                                                                                                                                                                                                                                                                                                                                                                                                                                                                                                                                                                                                                                                                                                                                                                                                                                                                                                                                                                                                                                                                                                                                                                                                                                                                                                                                                                                                                                                                                                                                                                                                                                                                                                                                                                                                                                                                                                                                                                                                                                                                                                                                                                                                                                                                                                                                                                                                                                                                                                                                                                                                                                                                                                                                                                                                                                                                                                                                                                                                                                                                                                                                                                                                                                                                                                                                                                                                                                                                                                                                                                                                                                                                                                                                                                                                                                                                                                                                                                                                                                                                                                                                                                                                                                                                                                                                                                                                                                                                                                                                                                                                                                                                                                                                                                                                                                                                                                                                                                                                                                                                                                                                                                                                                                                                                                                                                                                                                                                                                                                                                                                                                                                                                                                                                                                                                                                                                                                                                                                                                                                                                                                                                                                                                                                                                                                                                                                                                                                                                                                                                                                                                                                                                                                                                                                                                                                                                                                                                                                                                                                                                                                                                                                                                                                                                                                                                                                                                                                                                                                                                                                                                                                                                                                                                                                                                                                                                                                                                                                                                                                                                                                                                                                                                                                                                                                                                                                                                                                                                                                                                                                                                                                                                                                                                                                                                                                                                                                                                                                                                                                                                                                                                                                                                                                                                                                                                                                                                                                                                                                                                                                                                                                                                                                                                                                                                                                                                                                                                                                                                                                                                                                                                                                                                                                                                                                                                                                                                                                                                                                                                                                                                                                                                                                                                                                                                                                                                                                                                                                                                                                                                                                                                                                                                                                                                                                                                                                                                                                                                                                                                                                                                                                                                                                                                                                                                                                                                                                                                                                                                                                                                                                                                                                                                                                                                                                                                                                                                                                                                                                                                                                                                                                                                                                                                                                                                                                                                                                                                                                                                                                                                                                                                                                                                                                                                                                                                                                                                                                                                                                                                                                                                                                                                                                                                                                                                                                                                                                                                                                                                                                                                                                                                                                                                                                                                                                                                                                                                                                                                                                                                                                                                                                                                                                                                                                                                                                                                                                                                                                                                                                                                                                                                                                                                                                                                                                                                                                                                                                                                                                                                                                                                                                                                                                                                                                                                                                                                                                                                                                                                                                                                                                                                                                                                                                                                                                                                                                                                                                                                                                                                                                                                                                                                                                                                                                                                                                                                                                                                                                                                                                                                                                                                                                                                                                                                                                                                                                                                                                                                                                                                                                                                                                                                                                                                                                                                                                                                                                                                                                                                                                                                                                                                                                                                                                                                                                                                                                                                                                                                                                                                                                                                                                                                                                                                                                                                                                                                                                                                                                                                                                                                                                                                                                                                                                                                                                                                                                                                                                                                                                                                                                                                                                                                                                                                                                                                                                                                                                                                                                                                                                                                                                                                                                                                                                                                                                                                                                                                                                                                                                                                                                                                                                                                                                                                                                                                                                                                                                                                                                                                                                                                                                                                                                                                                                                                                                                                                                                                                                                                                                                                                                                                                                                                                                                                                                                                                                                                                                                                                                                                                                                                                                                                                                                                                                                                                                                                                                                                                                                                                                                                                                                                                                                                                                                                                                                                                                                                                                                                                                                                                                                                                                                                                                                                                                                                                                                                                                                                                                                                                                                                                                                                                                                                                                                                                                                                                                                                                                                                                                                                                                                                                                                                                                                                                                                                                                                                                                                                                                                                                                                                                                                                                                                                                                                                                                                                                                                                                                                                                                                                                                                                                                                                                                                                                                                                                                                                                                                                                                                                                                                                                                                                                                                                                                                                                                                                                                                                                                                                                                                                                                                                                                                                                                                                                                                                                                                                                                                                                                                                                                                                                                                                                                                                                                                                                                                                                                                                                                                                                                                                                                                                                                                                                                                                                                                                                                                                                                                                                                                                                                                                                                                                                                                                                                                                                                                                                                                                                                                                                                                                                                                                                                                                                                                                                                                                                                                                                                                                                                                                                                                                                                                                                                                                                                                                                                                                                                                                                                                                                                                                                                                                                                                                                                                                                                                                                                                                                                                                                                                                                                                                                                                                                                                                                                                                                                                                                                                                                                                                                                                                                                                                                                                                                                                                                                                                                                                                                                                                                                                                                                                                                                                                                                                                                                                                                                                                                                                                                                                                                                                                                                                                                                                                                                                                                                                                                                                                                                                                                                                                                                                                                                                                                                                                                                                                                                                                                                                                                                                                                                                                                                                                                                                                                                                                                                                                                                                                                                                                                                                                                                                                                                                                                                                                                                                                                                                                                                                                                                                                                                                                                                                                                                                                                                                                                                                                                                                                                                                                                                                                                                                                                                                                                                                                                                                                                                                                                                                                                                                                                                                                                                                                                                                                                                                                                                                                                                                                                                                                                                                                                                                                                                                                                                                                                                                                                                                                                                                                                                                                                                                                                                                                                                                                                                                                                                                                                                                                                                                                                                                                                                                                                                                                                                                                                                                                                                                                                                                                                                                                                                                                                                                                                                                                                                                                                                                                                                                                                                                                                                                                                                                                                                                                                                                                                                                                                                                                                                                                                                                                                                                                                                                                                                                                                                                                                                                                                                                                                                                                                                                                                                                                                                                                                                                                                                                                                                                                                                                                                                                                                                                                                                                                                                                                                                                                                                                                                                                                                                                                                                                                                                                                                                                                                                                                                                                                                                                                                                                                                                                                                                                                                                                                                                                                                                                                              ":",
                                                                                                                                                                                                                                                                                                                                                                                                                                                                                                                                                                                                                                                                                                                                                                                                                                                                                                                                                                                                                                                                                                                                                                                                                                                                                                                                                                                                                                                                                                                                                                                                                                                                                                                                                                                                                                                                                                                                                                                                                                                                                                                                                                                                                                                                                                                                                                                                                                                                                                                                                                                                                                                                                                                                                                                                                                                                                                                                                                                                                                                                                                                                                                                                                                                                                                                                                                                                                                                                                                                                                                                                                                                                                                                                                                                                                                                                                                                                                                                                                                                                                                                                                                                                                                                                                                                                                                                                                                                                                                                                                                                                                                                                                                                                                                                                                                                                                                                                                                                                                                                                                                                                                                                                                                                                                                                                                                                                                                                                                                                                                                                                                                                                                                                                                                                                                                                                                                                                                                                                                                                                                                                                                                                                                                                                                                                                                                                                                                                                                                                                                                                                                                                                                                                                                                                                                                                                                                                                                                                                                                                                                                                                                                                                                                                                                                                                                                                                                                                                                                                                                                                                                                                                                                                                                                                                                                                                                                                                                                                                                                                                                                                                                                                                                                                                                                                                                                                                                                                                                                                                                                                                                                                                                                                                                                                                                                                                                                                                                                                                                                                                                                                                                                                                                                                                                                                                                                                                                                                                                                                                                                                                                                                                                                                                                                                                                                                                                                                                                                                                                                                                                                                                                                                                                                                                                                                                                                                                                                                                                                                                                                                                                                                                                                                                                                                                                                                                                                                                                                                                                                                                                                                                                                                                                                                                                                                                                                                                                                                                                                                                                                                                                                                                                                                                                                                                                                                                                                                                                                                                                                                                                                                                                                                                                                                                                                                                                                                                                                                                                                                                                                                                                                                                                                                                                                                                                                                                                                                                                                                                                                                                                                                                                                                                                                                                                                                                                                                                                                                                                                                                                                                                                                                                                                                                                                                                                                                                                                                                                                                                                                                                                                                                                                                                                                                                                                                                                                                                                                                                                                                                                                                                                                                                                                                                                                                                                                                                                                                                                                                                                                                                                                                                                                                                                                                                                                                                                                                                                                                                                                                                                                                                                                                                                                                                                                                                                                                                                                                                                                                                                                                                                                                                                                                                                                                                                                                                                                                                                                                                                                                                                                                                                                                                                                                                                                                                                                                                                                                                                                                                                                                                                                                                                                                                                                                                                                                                                                                                                                                                                                                                                                                                                                                                                                                                                                                                                                                                                                                                                                                                                                                                                                                                                                                                                                                                                                                                                                                                                                                                                                                                                                                                                                                                                                                                                                                                                                                                                                                                                                                                                                                                                                                                                                                                                                                                                                                                                                                                                                                                                                                                                                                                                                                                                                                                                                                                                                                                                                                                                                                                                                                                                                                                                                                                                                                                                                                                                                                                                                                                                                                                                                                                                                                                                                                                                                                                                                                                                                                                                                                                                                                                                                                                                                                                                                                                                                                                                                                                                                                                                                                                                                                                                                                                                                                                                                                                                                                                                                                                                                                                                                                                                                                                                                                                                                                                                                                                                                                                                                                                                                                                                                                                                                                                                                                                                                                                                                                                                                                                                                                                                                                                                                                                                                                                                                                                                                                                                                                                                                                                                                                                                                                                                                                                                                                                                                                                                                                                                                                                                                                                                                                                                                                                                                                                                                                                                                                                                                                                                                                                                                                                                                                                                                                                                                                                                                                                                                                                                                                                                                                                                                                                                                                                                                                                                                                                                                                                                                                                                                                                                                                                                                                                                                                                                                                                                                                                                                                                                                                                                                                                                                                                                                                                                                                                                                                                                                                                                                                                                                                                                                                                                                                                                                                                                                                                                                                                                                                                                                                                                                                                                                                                                                                                                                                                                                                                                                                                                                                                                                                                                                                                                                                                                                                                                                                                                                                                                                                                                                                                                                                                                                                                                                                                                                                                                                                                                                                                                                                                                                                                                                                                                                                                                                                                                                                                                                                                                                                                                                                                                                                                                                                                                                                                                                                                                                                                                                                                                                                                                                                                                                                                                                                                                                                                                                                                                                                                                                                                                                                                                                                                                                                                                                                                                                                                                                                                                                                                                                                                                                                                                                                                                                                                                                                                                                                                                                                                                                                                                                                                                                                                                                                                                                                                                                                                                                                                                                                                                                                                                                                                                                                                                                                                                                                                                                                                                                                                                                                                                                                                                                                                                                                                                                                                                                                                                                                                                                                                                                                                                                                                                                                                                                                                                                                                                                                                                                                                                                                                                                                                                                                                                                                                                                                                                                                                                                                                                                                                                                                                                                                                                                                                                                                                                                                                                                                                                                                                                                                                                                                                                                                                                                                                                                                                                                                                                                                                                                                                                                                                                                                                                                                                                                                                                                                                                                                                                                                                                                                                                                                                                                                                                                                                                                                                                                                                                                                                                                                                                                                                                                                                                                                                                                                                                                                                                                                                                                                                                                                                                                                                                                                                                                                                                                                                                                                                                                                                                                                                                                                                                                                                                                                                                                                                                                                                                                                                                                                                                                                                                                                                                                                                                                                                                                                                                                                                                                                                                                                                                                                                                                                                                                                                                                                                                                                                                                                                                                                                                                                                                                                                                                                                                                                                                                                                                                                                                                                                                                                                                                                                                                                                                                                                                                                                                                                                                                                                                                                                                                                                                                                                                                                                                                                                                                                                                                                                                                                                                                                                                                                                                                                                                                                                                                                                                                                                                                                                                                                                                                                                                                                                                                                                                                                                                                                                                                                                                                                                                                                                                                                                                                                                                                                                                                                                                                                                                                                                                                                                                                                                                                                                                                                                                                                                                                                                                                                                                                                                                                                                                                                                                                                                                                                                                                                                                                                                                                                                                                                                                                                                                                                                                                                                                                                                                                                                                                                                                                                                                                                                                                                                                                                                                                                                                                                                                                                                                                                                                                                                                                                                                                                                                                                                                                                                                                                                                                                                                                                                                                                                                                                                                                                                                                                                                                                                                                                                                                                                                                                                                                                                                                                                                                                                                                                                                                                                                                                                                                                                                                                                                                                                                                                                                                                                                                                                                                                                                                                                                                                                                                                                                                                                                                                                                                                                                                                                                                                                                                                                                                                                                                                                                                                                                                                                                                                                                                                                                                                                                                                                                                                                                                                                                                                                                                                                                                                                                                                                                                                                                                                                                                                                                                                                                                                                                                                                                                                                                                                                                                                                                                                                                                                                                                                                                                                                                                                                                                                                                                                                                                                                                                                                                                                                                                                                                                                                                                                                                                                                                                                                                                                                                                                                                                                                                                                                                                                                                                                                                                                                                                                                                                                                                                                                                                                                                                                                                                                                                                                                                                                                                                                                                                                                                                                                                                                                                                                                                                                                                                                                                                                                                                                                                                                                                                                                                                                                                                                                                                                                                                                                                                                                                                                                                                                                                                                                                                                                                                                                                                                                                                                                                                                                                                                                                                                                                                                                                                                                                                                                                                                                                                                                                                                                                                                                                                                                                                                                                                                                                                                                                                                                                                                                                                                                                                                                                                                                                                                                                                                                                                                                                                                                                                                                                                                                                                                                                                                                                                                                                                                                                                                                                                                                                                                                                                                                                                                                                                                                                                                                                                                                                                                                                                                                                                                                                                                                                                                                                                                                                                                                                                                                                                                                                                                                                                                                                                                                                                                                                                                                                                                                                                                                                                                                                                                                                                                                                                                                                                                                                                                                                                                                                                                                                                                                                                                                                                                                                                                                                                                                                                                                                                                                                                                                                                                                                                                                                                                                                                                                                                                                                                                                                                                                                                                                                                                                                                                                                                                                                                                                                                                                                                                                                                                                                                                                                                                                                                                                                                                                                                                                                                                                                                                                                                                                                                                                                                                                                                                                                                                                                                                                                                                                                                                                                                                                                                                                                                                                                                                                                                                                                                                                                                                                                                                                                                                                                                                                                                                                                                                                                                                                                                                                                                                                                                                                                                                                                                                                                                                                                                                                                                                                                                                                                                                                                                                                                                                                                                                                                                                                                                                                                                                                                                                                                                                                                                                                                                                                                                                                                                                                                                                                                                                                                                                                                                                                                                                                                                                                                                                                                                                                                                                                                                                                                                                                                                                                                                                                                                                                                                                                                                                                                                                                                                                                                                                                                                                                                                                                                                                                                                                                                                                                                                                                                                                                                                                                                                                                                                                                                                                                                                                                                                                                                                                                                                                                                                                                                                                                                                                                                                                                                                                                                                                                                                                                                                                                                                                                                                                                                                                                                                                                                                                                                                                                                                                                                                                                                                                                                                                                                                                                                                                                                                                                                                                                                                                                                                                                                                                                                                                                                                                                                                                                                                                                                                                                                                                                                                                                                                                                                                                                                                                                                                                                                                                                                                                                                                                                                                                                                                                                                                                                                                                                                                                                                                                                                                                                                                                                                                                                                                                                                                                                                                                                                                                                                                                                                                                                                                                              " " >>,
      << "M", "I", "A", "S", "T", "O", ":" >> }

PrefixedAddresses == { << "u", "l", ".", " ", "N", "o", "w", "a", " ", "5" >>, << "R",
                                                                                  "y",
                                                                                  "n",
                                                                                  "e",
                                                                                  "k",
                                                                                  " ",
                                                                                  "1",
                                                                                  ",",
                                                                                  " ",
                                                                                  "L",
                                                                                  "o",
                                                                                  "d",
                                                                                  "z" >> }

PrefixedTexts ==
    { p \o a : p \in Concats(PrefixSpellings, MaxPrefixes),
               a \in PrefixedAddresses }

InitPrefixed == InitWith({ Str(x) : x \in PrefixedTexts })

SpecPrefixed == InitPrefixed /\ [][Next]_vars

\* The text begins with a known metadata prefix, in any letter case.
StartsWithPrefix(s) ==
    \E k \in 1..Len(PREFIXES_TO_REMOVE) :
        MatchAt(Lower(s), 1, PREFIXES_TO_REMOVE[k])

\* The text begins with the key of a metadata prefix.
StartsWithKey(s) ==
    \E key \in { KW_LOKALIZACJA, KW_ADRES, KW_MIASTO } :
        MatchAt(Lower(s), 1, key)

\* C27: for every location that passes the gate, create_google_maps_link
\* strips every leading occurrence of a known metadata prefix, also when
\* several prefixes follow one another: the text handed to the cleanup and
\* encoding steps never starts with a known metadata prefix and the link
\* never contains that leading key.
C27_LeadingPrefixesStripped ==
    (pc = "built" /\ IsStr(arg) /\ PassesGate(Strip(arg.s))) =>
        /\ ~StartsWithPrefix(StripLeadingPrefixes(Strip(arg.s), 1))
        /\ IsStr(ret)
        /\ ~StartsWithKey(LinkSuffix(ret.s))

\* ---------------------------------------------------------------------
\* Locations with up to MaxFields fields after an address: a country
\* field, a city under its key, a bare colon, a comma.
MaxFields == 2

FieldHeads == { << "u", "l", ".", " ", "N", "o", "w", "a", " ", "5" >>, << "R",
                                                                           "y",
                                                                           "n",
                                                                           "e",
                                                                           "k",
                                                                           " ",
                                                                           "1",
                                                                           ",",
                                                                           " ",
                                                                           "L",
                                                                           "o",
                                                                           "d",
                                                                           "z" >> }

FieldTails ==
    { << " ", "k", "r", "a", "j", ":", " ", "P", "L" >>, << " ", "m", "i",
                                                            "a", "s", "t",
                                                            "o", ":", " ",
                                                            "L", "o", "d",
                                                            "z" >>, << ":",
                                                                                                                                                                                                                                                                                                                                                                                   " ",
                                                                                                                                                                                                                                                                                                                                                                                   "L",
                                                                                                                                                                                                                                                                                                                                                                                   "o",
                                                                                                                                                                                                                                                                                                                                                                                   "d",
                                                                                                                                                                                                                                                                                                                                                                                   "z" >>, << ",",
                                                                                                                                                                                                                                                                                                                                                                                                                                                                                                                                                                                                                                                                                                                                                                                                                                                                                                                                                                                                                                                                                                                                                                                                                                                                                                                                                                                                                                                                                                                                                                                                                                                                                                                                                                                                                                                                                                                                                                                                                                                                                                                                                                                                                                                                                                                                                      ",",
                                                                                                                                                                                                                                                                                                                                                                                                                                                                                                                                                                                                                                                                                                                                                                                                                                                                                                                                                                                                                                                                                                                                                                                                                                                                                                                                                                                                                                                                                                                                                                                                                                                                                                                                                                                                                                                                                                                                                                                                                                                                                                                                                                                                                                                                                                                                                      " ",
                                                                                                                                                                                                                                                                                                                                                                                                                                                                                                                                                                                                                                                                                                                                                                                                                                                                                                                                                                                                                                                                                                                                                                                                                                                                                                                                                                                                                                                                                                                                                                                                                                                                                                                                                                                                                                                                                                                                                                                                                                                                                                                                                                                                                                                                                                                                                      "L",
                                                                                                                                                                                                                                                                                                                                                                                                                                                                                                                                                                                                                                                                                                                                                                                                                                                                                                                                                                                                                                                                                                                                                                                                                                                                                                                                                                                                                                                                                                                                                                                                                                                                                                                                                                                                                                                                                                                                                                                                                                                                                                                                                                                                                                                                                                                                                      "o",
                                                                                                                                                                                                                                                                                                                                                                                                                                                                                                                                                                                                                                                                                                                                                                                                                                                                                                                                                                                                                                                                                                                                                                                                                                                                                                                                                                                                                                                                                                                                                                                                                                                                                                                                                                                                                                                                                                                                                                                                                                                                                                                                                                                                                                                                                                                                                      "d",
                                                                                                                                                                                                                                                                                                                                                                                                                                                                                                                                                                                                                                                                                                                                                                                                                                                                                                                                                                                                                                                                                                                                                                                                                                                                                                                                                                                                                                                                                                                                                                                                                                                                                                                                                                                                                                                                                                                                                                                                                                                                                                                                                                                                                                                                                                                                                      "z" >>, << " ",
                                                                                                                                                                                                                                                                                                                                                                                                                                                                                                                                                                                                                                                                                                                                                                                                                                                                                                                                                                                                                                                                                                                                                                                                                                                                                                                                                                                                                                                                                                                                                                                                                                                                                                                                                                                                                                                                                                                                                                                                                                                                                                                                                                                                                                                                                                                                                                                                                                                                                                                                                                                                                                                                                                                                                                                                                                                                                                                                                                                                                                                                                                                                                                                                                                                                                                                                                                                                                                                                                                                                                                                                                                                                                                                                                                                                                                                                                                                                                                                                                                                                                                                                                                                                                                                                                                                                                                                                                                                                                                                                                                                                                                                                                                                                                                                                                                                                                                                                                                                                                                                                                                                                                                                                                                                                                                                                                                                                                                                                                                                                                                                                                                                                                                                                                                                                                                                                                                                                                                                                                                                                                                                                                                                                                                                                                                                                                                                                                                                                                                                                                                                                                                                                                                                                                                                                                                                                                                                                                                                                                                                                                                                                                                                                                                                                                                                                                                                                                                                                                                                                                                                                                                                                                                                                                                                                                                                                                                                                                                                                                                                                                                                                                                                                                                                                                                                                                                                                                                                                                                                                                                                                                                                                                                                                                                                                                                                                                                                                                                                                                                                                                                                                                                                                                                                                                                                                                                                                                                                                                                                                                                                                                                                                                                                                                                                                                                                                                                                                                                                                                                                                                                                                                                                                                                                                                                                                                                                                                                                                                                                                                                                                                                                                                                                                                                                                                                                                                                                                                                                                                                                                                                                                                                                                                                                                                                                                                                                                                                                                                                                                                                                                                                                                                                                                                                                                                                                                                                                                                                                                                                                                                                                                                                                                                                                                                                                                                                                                                                                                                                                                                                                                                                                                                                                                                                                                                                                                                                                                                                                                                                                                                                                                                                                                                                                                                                                                                                                                                                                                                                                                                                                                                                                                                                                                                                                                                                                                                                                                                                                                                                                                                                                                                                                                                                                                                                                                                                                                                                                                                                                                                                                                                                                                                                                                                                                                                                                                                                                                                                                                                                                                                                                                                                                                                                                                                                                                                                                                                                                                                                                                                                                                                                                                                                                                                                                                                                                                                                                                                                                                                                                                                                                                                                                                                                                                                                                                                                                                                                                                                                                                   "a",
                                                                                                                                                                                                                                                                                                                                                                                                                                                                                                                                                                                                                                                                                                                                                                                                                                                                                                                                                                                                                                                                                                                                                                                                                                                                                                                                                                                                                                                                                                                                                                                                                                                                                                                                                                                                                                                                                                                                                                                                                                                                                                                                                                                                                                                                                                                                                                                                                                                                                                                                                                                                                                                                                                                                                                                                                                                                                                                                                                                                                                                                                                                                                                                                                                                                                                                                                                                                                                                                                                                                                                                                                                                                                                                                                                                                                                                                                                                                                                                                                                                                                                                                                                                                                                                                                                                                                                                                                                                                                                                                                                                                                                                                                                                                                                                                                                                                                                                                                                                                                                                                                                                                                                                                                                                                                                                                                                                                                                                                                                                                                                                                                                                                                                                                                                                                                                                                                                                                                                                                                                                                                                                                                                                                                                                                                                                                                                                                                                                                                                                                                                                                                                                                                                                                                                                                                                                                                                                                                                                                                                                                                                                                                                                                                                                                                                                                                                                                                                                                                                                                                                                                                                                                                                                                                                                                                                                                                                                                                                                                                                                                                                                                                                                                                                                                                                                                                                                                                                                                                                                                                                                                                                                                                                                                                                                                                                                                                                                                                                                                                                                                                                                                                                                                                                                                                                                                                                                                                                                                                                                                                                                                                                                                                                                                                                                                                                                                                                                                                                                                                                                                                                                                                                                                                                                                                                                                                                                                                                                                                                                                                                                                                                                                                                                                                                                                                                                                                                                                                                                                                                                                                                                                                                                                                                                                                                                                                                                                                                                                                                                                                                                                                                                                                                                                                                                                                                                                                                                                                                                                                                                                                                                                                                                                                                                                                                                                                                                                                                                                                                                                                                                                                                                                                                                                                                                                                                                                                                                                                                                                                                                                                                                                                                                                                                                                                                                                                                                                                                                                                                                                                                                                                                                                                                                                                                                                                                                                                                                                                                                                                                                                                                                                                                                                                                                                                                                                                                                                                                                                                                                                                                                                                                                                                                                                                                                                                                                                                                                                                                                                                                                                                                                                                                                                                                                                                                                                                                                                                                                                                                                                                                                                                                                                                                                                                                                                                                                                                                                                                                                                                                                                                                                                                                                                                                                                                                                                                                                                                                                                                                                                   "d",
                                                                                                                                                                                                                                                                                                                                                                                                                                                                                                                                                                                                                                                                                                                                                                                                                                                                                                                                                                                                                                                                                                                                                                                                                                                                                                                                                                                                                                                                                                                                                                                                                                                                                                                                                                                                                                                                                                                                                                                                                                                                                                                                                                                                                                                                                                                                                                                                                                                                                                                                                                                                                                                                                                                                                                                                                                                                                                                                                                                                                                                                                                                                                                                                                                                                                                                                                                                                                                                                                                                                                                                                                                                                                                                                                                                                                                                                                                                                                                                                                                                                                                                                                                                                                                                                                                                                                                                                                                                                                                                                                                                                                                                                                                                                                                                                                                                                                                                                                                                                                                                                                                                                                                                                                                                                                                                                                                                                                                                                                                                                                                                                                                                                                                                                                                                                                                                                                                                                                                                                                                                                                                                                                                                                                                                                                                                                                                                                                                                                                                                                                                                                                                                                                                                                                                                                                                                                                                                                                                                                                                                                                                                                                                                                                                                                                                                                                                                                                                                                                                                                                                                                                                                                                                                                                                                                                                                                                                                                                                                                                                                                                                                                                                                                                                                                                                                                                                                                                                                                                                                                                                                                                                                                                                                                                                                                                                                                                                                                                                                                                                                                                                                                                                                                                                                                                                                                                                                                                                                                                                                                                                                                                                                                                                                                                                                                                                                                                                                                                                                                                                                                                                                                                                                                                                                                                                                                                                                                                                                                                                                                                                                                                                                                                                                                                                                                                                                                                                                                                                                                                                                                                                                                                                                                                                                                                                                                                                                                                                                                                                                                                                                                                                                                                                                                                                                                                                                                                                                                                                                                                                                                                                                                                                                                                                                                                                                                                                                                                                                                                                                                                                                                                                                                                                                                                                                                                                                                                                                                                                                                                                                                                                                                                                                                                                                                                                                                                                                                                                                                                                                                                                                                                                                                                                                                                                                                                                                                                                                                                                                                                                                                                                                                                                                                                                                                                                                                                                                                                                                                                                                                                                                                                                                                                                                                                                                                                                                                                                                                                                                                                                                                                                                                                                                                                                                                                                                                                                                                                                                                                                                                                                                                                                                                                                                                                                                                                                                                                                                                                                                                                                                                                                                                                                                                                                                                                                                                                                                                                                                                                                                                   "r",
                                                                                                                                                                                                                                                                                                                                                                                                                                                                                                                                                                                                                                                                                                                                                                                                                                                                                                                                                                                                                                                                                                                                                                                                                                                                                                                                                                                                                                                                                                                                                                                                                                                                                                                                                                                                                                                                                                                                                                                                                                                                                                                                                                                                                                                                                                                                                                                                                                                                                                                                                                                                                                                                                                                                                                                                                                                                                                                                                                                                                                                                                                                                                                                                                                                                                                                                                                                                                                                                                                                                                                                                                                                                                                                                                                                                                                                                                                                                                                                                                                                                                                                                                                                                                                                                                                                                                                                                                                                                                                                                                                                                                                                                                                                                                                                                                                                                                                                                                                                                                                                                                                                                                                                                                                                                                                                                                                                                                                                                                                                                                                                                                                                                                                                                                                                                                                                                                                                                                                                                                                                                                                                                                                                                                                                                                                                                                                                                                                                                                                                                                                                                                                                                                                                                                                                                                                                                                                                                                                                                                                                                                                                                                                                                                                                                                                                                                                                                                                                                                                                                                                                                                                                                                                                                                                                                                                                                                                                                                                                                                                                                                                                                                                                                                                                                                                                                                                                                                                                                                                                                                                                                                                                                                                                                                                                                                                                                                                                                                                                                                                                                                                                                                                                                                                                                                                                                                                                                                                                                                                                                                                                                                                                                                                                                                                                                                                                                                                                                                                                                                                                                                                                                                                                                                                                                                                                                                                                                                                                                                                                                                                                                                                                                                                                                                                                                                                                                                                                                                                                                                                                                                                                                                                                                                                                                                                                                                                                                                                                                                                                                                                                                                                                                                                                                                                                                                                                                                                                                                                                                                                                                                                                                                                                                                                                                                                                                                                                                                                                                                                                                                                                                                                                                                                                                                                                                                                                                                                                                                                                                                                                                                                                                                                                                                                                                                                                                                                                                                                                                                                                                                                                                                                                                                                                                                                                                                                                                                                                                                                                                                                                                                                                                                                                                                                                                                                                                                                                                                                                                                                                                                                                                                                                                                                                                                                                                                                                                                                                                                                                                                                                                                                                                                                                                                                                                                                                                                                                                                                                                                                                                                                                                                                                                                                                                                                                                                                                                                                                                                                                                                                                                                                                                                                                                                                                                                                                                                                                                                                                                                                                                   "e",
                                                                                                                                                                                                                                                                                                                                                                                                                                                                                                                                                                                                                                                                                                                                                                                                                                                                                                                                                                                                                                                                                                                                                                                                                                                                                                                                                                                                                                                                                                                                                                                                                                                                                                                                                                                                                                                                                                                                                                                                                                                                                                                                                                                                                                                                                                                                                                                                                                                                                                                                                                                                                                                                                                                                                                                                                                                                                                                                                                                                                                                                                                                                                                                                                                                                                                                                                                                                                                                                                                                                                                                                                                                                                                                                                                                                                                                                                                                                                                                                                                                                                                                                                                                                                                                                                                                                                                                                                                                                                                                                                                                                                                                                                                                                                                                                                                                                                                                                                                                                                                                                                                                                                                                                                                                                                                                                                                                                                                                                                                                                                                                                                                                                                                                                                                                                                                                                                                                                                                                                                                                                                                                                                                                                                                                                                                                                                                                                                                                                                                                                                                                                                                                                                                                                                                                                                                                                                                                                                                                                                                                                                                                                                                                                                                                                                                                                                                                                                                                                                                                                                                                                                                                                                                                                                                                                                                                                                                                                                                                                                                                                                                                                                                                                                                                                                                                                                                                                                                                                                                                                                                                                                                                                                                                                                                                                                                                                                                                                                                                                                                                                                                                                                                                                                                                                                                                                                                                                                                                                                                                                                                                                                                                                                                                                                                                                                                                                                                                                                                                                                                                                                                                                                                                                                                                                                                                                                                                                                                                                                                                                                                                                                                                                                                                                                                                                                                                                                                                                                                                                                                                                                                                                                                                                                                                                                                                                                                                                                                                                                                                                                                                                                                                                                                                                                                                                                                                                                                                                                                                                                                                                                                                                                                                                                                                                                                                                                                                                                                                                                                                                                                                                                                                                                                                                                                                                                                                                                                                                                                                                                                                                                                                                                                                                                                                                                                                                                                                                                                                                                                                                                                                                                                                                                                                                                                                                                                                                                                                                                                                                                                                                                                                                                                                                                                                                                                                                                                                                                                                                                                                                                                                                                                                                                                                                                                                                                                                                                                                                                                                                                                                                                                                                                                                                                                                                                                                                                                                                                                                                                                                                                                                                                                                                                                                                                                                                                                                                                                                                                                                                                                                                                                                                                                                                                                                                                                                                                                                                                                                                                                                                   "s",
                                                                                                                                                                                                                                                                                                                                                                                                                                                                                                                                                                                                                                                                                                                                                                                                                                                                                                                                                                                                                                                                                                                                                                                                                                                                                                                                                                                                                                                                                                                                                                                                                                                                                                                                                                                                                                                                                                                                                                                                                                                                                                                                                                                                                                                                                                                                                                                                                                                                                                                                                                                                                                                                                                                                                                                                                                                                                                                                                                                                                                                                                                                                                                                                                                                                                                                                                                                                                                                                                                                                                                                                                                                                                                                                                                                                                                                                                                                                                                                                                                                                                                                                                                                                                                                                                                                                                                                                                                                                                                                                                                                                                                                                                                                                                                                                                                                                                                                                                                                                                                                                                                                                                                                                                                                                                                                                                                                                                                                                                                                                                                                                                                                                                                                                                                                                                                                                                                                                                                                                                                                                                                                                                                                                                                                                                                                                                                                                                                                                                                                                                                                                                                                                                                                                                                                                                                                                                                                                                                                                                                                                                                                                                                                                                                                                                                                                                                                                                                                                                                                                                                                                                                                                                                                                                                                                                                                                                                                                                                                                                                                                                                                                                                                                                                                                                                                                                                                                                                                                                                                                                                                                                                                                                                                                                                                                                                                                                                                                                                                                                                                                                                                                                                                                                                                                                                                                                                                                                                                                                                                                                                                                                                                                                                                                                                                                                                                                                                                                                                                                                                                                                                                                                                                                                                                                                                                                                                                                                                                                                                                                                                                                                                                                                                                                                                                                                                                                                                                                                                                                                                                                                                                                                                                                                                                                                                                                                                                                                                                                                                                                                                                                                                                                                                                                                                                                                                                                                                                                                                                                                                                                                                                                                                                                                                                                                                                                                                                                                                                                                                                                                                                                                                                                                                                                                                                                                                                                                                                                                                                                                                                                                                                                                                                                                                                                                                                                                                                                                                                                                                                                                                                                                                                                                                                                                                                                                                                                                                                                                                                                                                                                                                                                                                                                                                                                                                                                                                                                                                                                                                                                                                                                                                                                                                                                                                                                                                                                                                                                                                                                                                                                                                                                                                                                                                                                                                                                                                                                                                                                                                                                                                                                                                                                                                                                                                                                                                                                                                                                                                                                                                                                                                                                                                                                                                                                                                                                                                                                                                                                                                                                   " ",
                                                                                                                                                                                                                                                                                                                                                                                                                                                                                                                                                                                                                                                                                                                                                                                                                                                                                                                                                                                                                                                                                                                                                                                                                                                                                                                                                                                                                                                                                                                                                                                                                                                                                                                                                                                                                                                                                                                                                                                                                                                                                                                                                                                                                                                                                                                                                                                                                                                                                                                                                                                                                                                                                                                                                                                                                                                                                                                                                                                                                                                                                                                                                                                                                                                                                                                                                                                                                                                                                                                                                                                                                                                                                                                                                                                                                                                                                                                                                                                                                                                                                                                                                                                                                                                                                                                                                                                                                                                                                                                                                                                                                                                                                                                                                                                                                                                                                                                                                                                                                                                                                                                                                                                                                                                                                                                                                                                                                                                                                                                                                                                                                                                                                                                                                                                                                                                                                                                                                                                                                                                                                                                                                                                                                                                                                                                                                                                                                                                                                                                                                                                                                                                                                                                                                                                                                                                                                                                                                                                                                                                                                                                                                                                                                                                                                                                                                                                                                                                                                                                                                                                                                                                                                                                                                                                                                                                                                                                                                                                                                                                                                                                                                                                                                                                                                                                                                                                                                                                                                                                                                                                                                                                                                                                                                                                                                                                                                                                                                                                                                                                                                                                                                                                                                                                                                                                                                                                                                                                                                                                                                                                                                                                                                                                                                                                                                                                                                                                                                                                                                                                                                                                                                                                                                                                                                                                                                                                                                                                                                                                                                                                                                                                                                                                                                                                                                                                                                                                                                                                                                                                                                                                                                                                                                                                                                                                                                                                                                                                                                                                                                                                                                                                                                                                                                                                                                                                                                                                                                                                                                                                                                                                                                                                                                                                                                                                                                                                                                                                                                                                                                                                                                                                                                                                                                                                                                                                                                                                                                                                                                                                                                                                                                                                                                                                                                                                                                                                                                                                                                                                                                                                                                                                                                                                                                                                                                                                                                                                                                                                                                                                                                                                                                                                                                                                                                                                                                                                                                                                                                                                                                                                                                                                                                                                                                                                                                                                                                                                                                                                                                                                                                                                                                                                                                                                                                                                                                                                                                                                                                                                                                                                                                                                                                                                                                                                                                                                                                                                                                                                                                                                                                                                                                                                                                                                                                                                                                                                                                                                                                                                                   ":",
                                                                                                                                                                                                                                                                                                                                                                                                                                                                                                                                                                                                                                                                                                                                                                                                                                                                                                                                                                                                                                                                                                                                                                                                                                                                                                                                                                                                                                                                                                                                                                                                                                                                                                                                                                                                                                                                                                                                                                                                                                                                                                                                                                                                                                                                                                                                                                                                                                                                                                                                                                                                                                                                                                                                                                                                                                                                                                                                                                                                                                                                                                                                                                                                                                                                                                                                                                                                                                                                                                                                                                                                                                                                                                                                                                                                                                                                                                                                                                                                                                                                                                                                                                                                                                                                                                                                                                                                                                                                                                                                                                                                                                                                                                                                                                                                                                                                                                                                                                                                                                                                                                                                                                                                                                                                                                                                                                                                                                                                                                                                                                                                                                                                                                                                                                                                                                                                                                                                                                                                                                                                                                                                                                                                                                                                                                                                                                                                                                                                                                                                                                                                                                                                                                                                                                                                                                                                                                                                                                                                                                                                                                                                                                                                                                                                                                                                                                                                                                                                                                                                                                                                                                                                                                                                                                                                                                                                                                                                                                                                                                                                                                                                                                                                                                                                                                                                                                                                                                                                                                                                                                                                                                                                                                                                                                                                                                                                                                                                                                                                                                                                                                                                                                                                                                                                                                                                                                                                                                                                                                                                                                                                                                                                                                                                                                                                                                                                                                                                                                                                                                                                                                                                                                                                                                                                                                                                                                                                                                                                                                                                                                                                                                                                                                                                                                                                                                                                                                                                                                                                                                                                                                                                                                                                                                                                                                                                                                                                                                                                                                                                                                                                                                                                                                                                                                                                                                                                                                                                                                                                                                                                                                                                                                                                                                                                                                                                                                                                                                                                                                                                                                                                                                                                                                                                                                                                                                                                                                                                                                                                                                                                                                                                                                                                                                                                                                                                                                                                                                                                                                                                                                                                                                                                                                                                                                                                                                                                                                                                                                                                                                                                                                                                                                                                                                                                                                                                                                                                                                                                                                                                                                                                                                                                                                                                                                                                                                                                                                                                                                                                                                                                                                                                                                                                                                                                                                                                                                                                                                                                                                                                                                                                                                                                                                                                                                                                                                                                                                                                                                                                                                                                                                                                                                                                                                                                                                                                                                                                                                                                                                                                   " ",
                                                                                                                                                                                                                                                                                                                                                                                                                                                                                                                                                                                                                                                                                                                                                                                                                                                                                                                                                                                                                                                                                                                                                                                                                                                                                                                                                                                                                                                                                                                                                                                                                                                                                                                                                                                                                                                                                                                                                                                                                                                                                                                                                                                                                                                                                                                                                                                                                                                                                                                                                                                                                                                                                                                                                                                                                                                                                                                                                                                                                                                                                                                                                                                                                                                                                                                                                                                                                                                                                                                                                                                                                                                                                                                                                                                                                                                                                                                                                                                                                                                                                                                                                                                                                                                                                                                                                                                                                                                                                                                                                                                                                                                                                                                                                                                                                                                                                                                                                                                                                                                                                                                                                                                                                                                                                                                                                                                                                                                                                                                                                                                                                                                                                                                                                                                                                                                                                                                                                                                                                                                                                                                                                                                                                                                                                                                                                                                                                                                                                                                                                                                                                                                                                                                                                                                                                                                                                                                                                                                                                                                                                                                                                                                                                                                                                                                                                                                                                                                                                                                                                                                                                                                                                                                                                                                                                                                                                                                                                                                                                                                                                                                                                                                                                                                                                                                                                                                                                                                                                                                                                                                                                                                                                                                                                                                                                                                                                                                                                                                                                                                                                                                                                                                                                                                                                                                                                                                                                                                                                                                                                                                                                                                                                                                                                                                                                                                                                                                                                                                                                                                                                                                                                                                                                                                                                                                                                                                                                                                                                                                                                                                                                                                                                                                                                                                                                                                                                                                                                                                                                                                                                                                                                                                                                                                                                                                                                                                                                                                                                                                                                                                                                                                                                                                                                                                                                                                                                                                                                                                                                                                                                                                                                                                                                                                                                                                                                                                                                                                                                                                                                                                                                                                                                                                                                                                                                                                                                                                                                                                                                                                                                                                                                                                                                                                                                                                                                                                                                                                                                                                                                                                                                                                                                                                                                                                                                                                                                                                                                                                                                                                                                                                                                                                                                                                                                                                                                                                                                                                                                                                                                                                                                                                                                                                                                                                                                                                                                                                                                                                                                                                                                                                                                                                                                                                                                                                                                                                                                                                                                                                                                                                                                                                                                                                                                                                                                                                                                                                                                                                                                                                                                                                                                                                                                                                                                                                                                                                                                                                                                                                                   "x" >> }

FieldTexts ==
    { h \o t : h \in FieldHeads, t \in Concats(FieldTails, MaxFields) }

InitFields == InitWith({ Str(x) : x \in FieldTexts })

SpecFields == InitFields /\ [][Next]_vars

\* _MAPS_SUFFIX_RE matches somewhere in the text: it ends in
\* ': <value> kraj: <code>'.
HasTrailingCountry(s) ==
    \E p \in 1..Len(s) : SuffixGroupAt(s, p)[1] # 0

\* C28: for every location that passes the gate and does not end in
\* ': <value> kraj: <code>', the text create_google_maps_link encodes is
\* clean_location_text of the prefix-stripped location, and the link is the
\* encoding of that text.
C28_CleanupIsCleanText ==
    (/\ pc = "built"
     /\ IsStr(arg)
     /\ PassesGate(Strip(arg.s))
     /\ ~HasTrailingCountry(Strip(arg.s))) =>
        /\ MapsText(Strip(arg.s)) =
               clean_location_text(
                   Str(StripLeadingPrefixes(Strip(arg.s), 1))).s
        /\ ret = LinkOf(clean_location_text(
                            Str(StripLeadingPrefixes(Strip(arg.s), 1))).s)

\* The text holds no colon.
NoColon(s) == \A i \in 1..Len(s) : s[i] # ":"

\* C29: no string returned by clean_location_text, _finalise_location or
\* extract_location_from_data contains a colon, and no correct form of
\* _POLISH_REPLACEMENTS holds one for normalize_polish_names to put in.
C29_NoColonReturned ==
    /\ \A k \in 1..Len(tables.POLISH_REPLACEMENTS) :
           NoColon(tables.POLISH_REPLACEMENTS[k][2])
    /\ (pc \in { "cleaned", "finalised", "extracted" } /\ IsStr(ret)) =>
           NoColon(ret.s)

\* A part with two bare colons after the address is extracted, and both
\* colons came back as ', '.
C29_Witness ==
    /\ pc = "extracted"
    /\ arg = Str(<< "u", "l", ".", " ", "N", "o", "w", "a", " ", "5", ":",
                    " ", "L", "o", "d", "z", ":", " ", "L", "o", "d", "z" >>)
    /\ IsStr(ret)
    /\ NoColon(ret.s)
    /\ Contains(ret.s, << "5", ",", " " >>)
    /\ Len(ret.s) > Len(<< "u", "l", ".", " ", "N", "o", "w", "a", " ",
                           "5", ",", " " >>)

\* ---------------------------------------------------------------------
\* Rows with parts whose raw candidate is cleaned away: a dash pattern that
\* ends in a country field or in a comma, a country field alone and a
\* structured block with nothing but a country; next to an address, a
\* generic word and an exclude term.
SelectionParts ==
    { << "l", "o", "k", "a", "l", "i", "z", "a", "c", "j", "a", ":", " ",
         "a", "d", "r", "e", "s", ":", " ", "k", "r", "a", "j", ":", " ",
         "P", "L" >>,
      << "x", " ", "-", " ", "k", "r", "a", "j", ":", " ", "P", "L" >>,
      << "a", " ", "-", " ", "," >>,
      << "k", "r", "a", "j", ":", " ", "P", "o", "l", "s", "k", "a" >>,
      << "u", "l", ".", " ", "N", "o", "w", "a", " ", "5" >>,
      << "k", "i", "o", "s", "k" >>,
      << "s", "h", "o", "p" >> }

SelectionTexts ==
    { JoinParts(ps) :
        ps \in UNION { [1..n -> SelectionParts] : n \in 1..MaxParts } }

InitSelection == InitWith({ Str(x) : x \in SelectionTexts })

SpecSelection == InitSelection /\ [][Next]_vars

\* C30: the first part, in the order tier then position, for which a tier
\* yields a raw candidate decides the result: extract_location_from_data
\* returns the finalised text of that candidate, the empty string included,
\* whatever the later parts and the later tiers would give.
C30_SelectionBeforeFinalisation ==
    (pc = "extracted" /\ IsStr(arg) /\ arg.s # <<>>) =>
        \A t \in 1..4, i \in 1..Len(split_parts(arg)) :
            (/\ Truthy(TierCandidate(t, split_parts(arg)[i]))
             /\ \A u \in 1..4, j \in 1..Len(split_parts(arg)) :
                    (u < t \/ (u = t /\ j < i)) =>
                        ~Truthy(TierCandidate(u, split_parts(arg)[j]))) =>
                /\ tier = t
                /\ part = i
                /\ ret = finalise_location(
                             TierCandidate(t, split_parts(arg)[i]).s)

\* The dash pattern of the first part was cleaned away to '' and returned,
\* although the second part is an address with a non-empty finalised text.
C30_Witness ==
    /\ pc = "extracted"
    /\ IsStr(arg)
    /\ Len(split_parts(arg)) = 2
    /\ tier = 2
    /\ part = 1
    /\ ret = Str(<<>>)
    /\ Truthy(TierCandidate(3, split_parts(arg)[2]))
    /\ Truthy(finalise_location(TierCandidate(3, split_parts(arg)[2]).s))

(***************************************************************************)
(* data_imports.read_transaction_csv(file_path, encoding)                  *)
(***************************************************************************)
preferred_pl_encodings ==
    << << "u", "t", "f", "-", "8" >>,
       << "u", "t", "f", "-", "8", "-", "s", "i", "g" >>,
       << "c", "p", "1", "2", "5", "0" >>,
       << "i", "s", "o", "-", "8", "8", "5", "9", "-", "2" >> >>

secondary_encodings ==
    << << "c", "p", "1", "2", "5", "2" >>,
       << "i", "s", "o", "-", "8", "8", "5", "9", "-", "1" >> >>

\* The literal set of the is_latin1 test.
LATIN1_NAMES ==
    { << "i", "s", "o", "-", "8", "8", "5", "9", "-", "1" >>,
      << "l", "a", "t", "i", "n", "1" >>,
      << "l", "a", "t", "i", "n", "-", "1" >>,
      << "i", "s", "o", "_", "8", "8", "5", "9", "_", "1" >> }

\* (encoding or '').replace('_', '-').lower()
enc_lower(enc) ==
    Lower(Replace(IF Truthy(enc) THEN enc.s ELSE <<>>, << "_" >>, << "-" >>))

is_latin1(enc) == enc_lower(enc) \in LATIN1_NAMES

\* [e for e in preferred_pl_encodings + secondary_encodings if e != encoding]
OtherEncodings(name) ==
    LET Differs(e) == e # name
    IN  SelectSeq(preferred_pl_encodings \o secondary_encodings, Differs)

\* The if-else that builds encodings_to_try.
CandidateList(enc) ==
    IF Truthy(enc) /\ ~is_latin1(enc)
    THEN << enc.s >> \o OtherEncodings(enc.s)
    ELSE preferred_pl_encodings \o secondary_encodings

\* An exception raised by pd.read_csv, and no exception.
Exc(type, msg) == [type |-> type, msg |-> msg]

NoException == Exc("none", <<>>)

\* The classes of the exceptions with their base classes.
ExceptionBases ==
    [ UnicodeDecodeError |->
          { "UnicodeDecodeError", "UnicodeError", "ValueError", "Exception" },
      UnicodeError |-> { "UnicodeError", "ValueError", "Exception" },
      FileNotFoundError |-> { "FileNotFoundError", "OSError", "Exception" },
      LookupError |-> { "LookupError", "Exception" },
      EmptyDataError |-> { "EmptyDataError", "ValueError", "Exception" },
      ValueError |-> { "ValueError", "Exception" },
      Exception |-> { "Exception" } ]

\* isinstance(exc, cls)
IsInstance(exc, cls) == cls \in ExceptionBases[exc.type]

\* What pd.read_csv may raise for a file and an encoding.
ReadErrors ==
    { Exc("UnicodeDecodeError", << "'", "u", "t", "f", "-", "8", "'", " ",
                                   "c", "o", "d", "e", "c", " ", "c", "a",
                                   "n", "'", "t", " ", "d", "e", "c", "o",
                                   "d", "e", " ", "b", "y", "t", "e", " ",
                                   "0", "x", "b", "3" >>),
      Exc("UnicodeError", << "U", "T", "F", "-", "1", "6", " ", "s", "t",
                             "r", "e", "a", "m", " ", "d", "o", "e", "s",
                             " ", "n", "o", "t", " ", "s", "t", "a", "r",
                             "t", " ", "w", "i", "t", "h", " ", "B", "O",
                             "M" >>),
      Exc("LookupError", << "u", "n", "k", "n", "o", "w", "n", " ", "e",
                            "n", "c", "o", "d", "i", "n", "g", ":", " ",
                            "L", "1" >>),
      Exc("Exception", << "U", "n", "k", "n", "o", "w", "n", " ", "C", "O",
                          "D", "E", "C" >>),
      Exc("FileNotFoundError", << "N", "o", " ", "s", "u", "c", "h", " ",
                                  "f", "i", "l", "e", " ", "o", "r", " ",
                                  "d", "i", "r", "e", "c", "t", "o", "r",
                                  "y", ":", " ", "'", "c", "o", "d", "e",
                                  "c", ".", "c", "s", "v", "'" >>),
      Exc("EmptyDataError", << "N", "o", " ", "c", "o", "l", "u", "m", "n",
                               "s", " ", "t", "o", " ", "p", "a", "r", "s",
                               "e", " ", "f", "r", "o", "m", " ", "f", "i",
                               "l", "e" >>) }

\* 'codec' in str(e).lower() or 'encoding' in str(e).lower()
MentionsEncoding(msg) ==
    \/ Contains(Lower(msg), << "c", "o", "d", "e", "c" >>)
    \/ Contains(Lower(msg), << "e", "n", "c", "o", "d", "i", "n", "g" >>)

\* The except clauses with 'except Exception' moved before
\* 'except FileNotFoundError'.
HandlerOfExceptionFirst(exc) ==
    IF IsInstance(exc, "UnicodeDecodeError") \/ IsInstance(exc, "UnicodeError")
    THEN "UnicodeError"
    ELSE "Exception"

\* The first except clause of the try around pd.read_csv that matches exc.
HandlerOf(exc) ==
    IF IsInstance(exc, "UnicodeDecodeError") \/ IsInstance(exc, "UnicodeError")
    THEN "UnicodeError"
    ELSE IF IsInstance(exc, "FileNotFoundError") THEN "FileNotFoundError"
    ELSE "Exception"

\* The loop that leaves out the last candidate.
HasNextButLast(tried, candidates) == Len(tried) + 1 < Len(candidates)

\* for enc in encodings_to_try: a candidate is left after the ones tried.
HasNext(tried, candidates) == Len(tried) < Len(candidates)

\* The loop variable enc of the iteration that follows the attempts so far.
NextEnc == encodings_to_try[Len(attempts) + 1]

Attempt(enc, exc) == [enc |-> enc, exc |-> exc]

Returned(enc) == [kind |-> "returned", enc |-> enc, exc |-> NoException]

RaisedOut(exc) == [kind |-> "raised", enc |-> <<>>, exc |-> exc]

\* raise ValueError(f"Could not read {file_path} with any of the tried
\* encodings: ...")
CouldNotRead ==
    Exc("ValueError", << "C", "o", "u", "l", "d", " ", "n", "o", "t", " ",
                         "r", "e", "a", "d", " ", "w", "i", "t", "h", " ",
                         "a", "n", "y", " ", "o", "f", " ", "t", "h", "e",
                         " ", "t", "r", "i", "e", "d", " ", "e", "n", "c",
                         "o", "d", "i", "n", "g", "s" >>)

\* From the function's entry to the loop: the candidate list is built.
BuildCandidates ==
    /\ rpc = "entry"
    /\ encodings_to_try' = CandidateList(encoding)
    /\ rpc' = "loop"
    /\ UNCHANGED << encoding, attempts, result >>
    /\ UNCHANGED << locationVars, mainVars, sharedVars, coreVars >>

\* pd.read_csv succeeds: return df.
ReadCsvReturns ==
    /\ rpc = "loop"
    /\ HasNext(attempts, encodings_to_try)
    /\ attempts' = Append(attempts, Attempt(NextEnc, NoException))
    /\ result' = Returned(NextEnc)
    /\ rpc' = "done"
    /\ UNCHANGED << encoding, encodings_to_try >>
    /\ UNCHANGED << locationVars, mainVars, sharedVars, coreVars >>

\* except (UnicodeDecodeError, UnicodeError): continue
ExceptUnicodeError ==
    /\ rpc = "loop"
    /\ HasNext(attempts, encodings_to_try)
    /\ \E exc \in ReadErrors :
        /\ HandlerOf(exc) = "UnicodeError"
        /\ attempts' = Append(attempts, Attempt(NextEnc, exc))
    /\ UNCHANGED << encoding, encodings_to_try, rpc, result >>
    /\ UNCHANGED << locationVars, mainVars, sharedVars, coreVars >>

\* except FileNotFoundError: log and raise
ExceptFileNotFoundError ==
    /\ rpc = "loop"
    /\ HasNext(attempts, encodings_to_try)
    /\ \E exc \in ReadErrors :
        /\ HandlerOf(exc) = "FileNotFoundError"
        /\ attempts' = Append(attempts, Attempt(NextEnc, exc))
        /\ result' = RaisedOut(exc)
    /\ rpc' = "done"
    /\ UNCHANGED << encoding, encodings_to_try >>
    /\ UNCHANGED << locationVars, mainVars, sharedVars, coreVars >>

\* except Exception: continue when the message mentions an encoding,
\* otherwise log and raise.
ExceptException ==
    /\ rpc = "loop"
    /\ HasNext(attempts, encodings_to_try)
    /\ \E exc \in ReadErrors :
        /\ HandlerOf(exc) = "Exception"
        /\ attempts' = Append(attempts, Attempt(NextEnc, exc))
        /\ IF MentionsEncoding(exc.msg)
           THEN UNCHANGED << rpc, result >>
           ELSE result' = RaisedOut(exc) /\ rpc' = "done"
    /\ UNCHANGED << encoding, encodings_to_try >>
    /\ UNCHANGED << locationVars, mainVars, sharedVars, coreVars >>

\* The loop ends without a return: raise ValueError.
RaiseValueError ==
    /\ rpc = "loop"
    /\ ~HasNext(attempts, encodings_to_try)
    /\ result' = RaisedOut(CouldNotRead)
    /\ rpc' = "done"
    /\ UNCHANGED << encoding, encodings_to_try, attempts >>
    /\ UNCHANGED << locationVars, mainVars, sharedVars, coreVars >>

NextReader ==
    \/ BuildCandidates
    \/ ReadCsvReturns
    \/ ExceptUnicodeError
    \/ ExceptFileNotFoundError
    \/ ExceptException
    \/ RaiseValueError

\* The encodings a caller passes: none, the empty string, a candidate, an
\* encoding outside the list, spellings of Latin-1 and of UTF-8.
CallerEncodings ==
    { None, Str(<<>>),
      Str(<< "c", "p", "1", "2", "5", "0" >>),
      Str(<< "c", "p", "8", "5", "2" >>),
      Str(<< "i", "s", "o", "_", "8", "8", "5", "9", "_", "1" >>),
      Str(<< "L", "a", "t", "i", "n", "-", "1" >>),
      Str(<< "L", "1" >>),
      Str(<< "U", "T", "F", "-", "8" >>) }

InitReader ==
    /\ arg = None
    /\ pc = "idle"
    /\ ret = Unset
    /\ tier = 0
    /\ part = 0
    /\ link = Unset
    /\ encoding \in CallerEncodings
    /\ encodings_to_try = <<>>
    /\ attempts = <<>>
    /\ rpc = "entry"
    /\ result = NoResult
    /\ mpc = "idle"
    /\ calls = <<>>
    /\ df = NoFrame
    /\ processed_df = NoFrame
    /\ tables = StaticTables
    /\ workers = <<>>
    /\ CoreIdle

SpecReader == InitReader /\ [][NextReader]_vars

\* The names of Python's Latin-1 codec (encodings.aliases), in the form the
\* codec lookup compares: lower case, '_' for '-'.
LATIN1_ALIASES ==
    { << "l", "a", "t", "i", "n", "_", "1" >>, << "l", "a", "t", "i", "n",
                                                  "1" >>, << "l",
                                                                                                                                        "a",
                                                                                                                                        "t",
                                                                                                                                        "i",
                                                                                                                                        "n" >>, << "l",
                                                                                                                                                                                                                                                                                                                                                                                                                                                                                                                                                                                                                                                                                                                                       "1" >>,
      << "i", "s", "o", "_", "8", "8", "5", "9", "_", "1" >>, << "i", "s",
                                                                 "o", "8",
                                                                 "8", "5",
                                                                 "9", "_",
                                                                 "1" >>, << "i",
                                                                                                                                                                                                                                                                                                                                                                                        "s",
                                                                                                                                                                                                                                                                                                                                                                                        "o",
                                                                                                                                                                                                                                                                                                                                                                                        "8",
                                                                                                                                                                                                                                                                                                                                                                                        "8",
                                                                                                                                                                                                                                                                                                                                                                                        "5",
                                                                                                                                                                                                                                                                                                                                                                                        "9" >>, << "8",
                                                                                                                                                                                                                                                                                                                                                                                                                                                                                                                                                                                                                                                                                                                                                                                                                                                                                                                                                                                                                                                                                                                                                                                                                                                                                                                                                                                                                                                                                                                                                                                                                                                                                                                                                                                                                                                                                                                                                                                                                                                                                                                                                                                                                                                                                                                                                                                                                                                                                                                                                                                                                                                                                                                                                                                 "8",
                                                                                                                                                                                                                                                                                                                                                                                                                                                                                                                                                                                                                                                                                                                                                                                                                                                                                                                                                                                                                                                                                                                                                                                                                                                                                                                                                                                                                                                                                                                                                                                                                                                                                                                                                                                                                                                                                                                                                                                                                                                                                                                                                                                                                                                                                                                                                                                                                                                                                                                                                                                                                                                                                                                                                                                 "5",
                                                                                                                                                                                                                                                                                                                                                                                                                                                                                                                                                                                                                                                                                                                                                                                                                                                                                                                                                                                                                                                                                                                                                                                                                                                                                                                                                                                                                                                                                                                                                                                                                                                                                                                                                                                                                                                                                                                                                                                                                                                                                                                                                                                                                                                                                                                                                                                                                                                                                                                                                                                                                                                                                                                                                                                 "9" >>,
      << "i", "s", "o", "_", "8", "8", "5", "9", "_", "1", "_", "1", "9",
         "8", "7" >>, << "i",
                                                                                                   "s",
                                                                                                   "o",
                                                                                                   "_",
                                                                                                   "i",
                                                                                                   "r",
                                                                                                   "_",
                                                                                                   "1",
                                                                                                   "0",
                                                                                                   "0" >>,
      << "c", "p", "8", "1", "9" >>, << "i", "b", "m", "8", "1", "9" >>, << "c",
                                                                            "s",
                                                                            "i",
                                                                            "s",
                                                                            "o",
                                                                            "l",
                                                                            "a",
                                                                            "t",
                                                                            "i",
                                                                            "n",
                                                                            "1" >> }

CodecName(name) == Lower(Replace(name, << "-" >>, << "_" >>))

IsLatin1Alias(name) == CodecName(name) \in LATIN1_ALIASES

DefaultCandidates ==
    << << "u", "t", "f", "-", "8" >>, << "u", "t", "f", "-", "8", "-", "s",
                                         "i", "g" >>, << "c",
                                                                                                                                     "p",
                                                                                                                                     "1",
                                                                                                                                     "2",
                                                                                                                                     "5",
                                                                                                                                     "0" >>, << "i",
                                                                                                                                                                                                                                                                                                                                                                                                                                                                                                                                                                                                                                                                                                                                                                                                                                                                  "s",
                                                                                                                                                                                                                                                                                                                                                                                                                                                                                                                                                                                                                                                                                                                                                                                                                                                                  "o",
                                                                                                                                                                                                                                                                                                                                                                                                                                                                                                                                                                                                                                                                                                                                                                                                                                                                  "-",
                                                                                                                                                                                                                                                                                                                                                                                                                                                                                                                                                                                                                                                                                                                                                                                                                                                                  "8",
                                                                                                                                                                                                                                                                                                                                                                                                                                                                                                                                                                                                                                                                                                                                                                                                                                                                  "8",
                                                                                                                                                                                                                                                                                                                                                                                                                                                                                                                                                                                                                                                                                                                                                                                                                                                                  "5",
                                                                                                                                                                                                                                                                                                                                                                                                                                                                                                                                                                                                                                                                                                                                                                                                                                                                  "9",
                                                                                                                                                                                                                                                                                                                                                                                                                                                                                                                                                                                                                                                                                                                                                                                                                                                                  "-",
                                                                                                                                                                                                                                                                                                                                                                                                                                                                                                                                                                                                                                                                                                                                                                                                                                                                  "2" >>,
       << "c", "p", "1", "2", "5", "2" >>, << "i", "s", "o", "-", "8", "8",
                                              "5", "9", "-", "1" >> >>

\* The candidate list of the contract: the caller's encoding first when one
\* is given and it is not a Latin-1 alias, then the default list without
\* the caller's encoding; the default list alone otherwise.
ExpectedCandidates(enc) ==
    LET Other(e) == CodecName(e) # CodecName(enc.s)
    IN  IF IsStr(enc) /\ enc.s # <<>> /\ ~IsLatin1Alias(enc.s)
        THEN << enc.s >> \o SelectSeq(DefaultCandidates, Other)
        ELSE DefaultCandidates

\* C17: read_transaction_csv attempts the encodings in candidate-list order
\* and stops at the first success; the list is the caller's encoding first
\* when one is given and it is not a Latin-1 alias, followed by utf-8,
\* utf-8-sig, cp1250, iso-8859-2, cp1252, iso-8859-1 without repeating the
\* caller's encoding, and that default list alone when the caller passes a
\* Latin-1 alias or no encoding; the first encoding that reads is the one
\* returned and no later one is attempted.
C17_CandidateOrder ==
    rpc \in { "loop", "done" } =>
        /\ encodings_to_try = ExpectedCandidates(encoding)
        /\ Len(attempts) <= Len(encodings_to_try)
        /\ \A k \in 1..Len(attempts) :
            /\ attempts[k].enc = encodings_to_try[k]
            /\ k < Len(attempts) => attempts[k].exc # NoException
        /\ result.kind = "returned" =>
            /\ rpc = "done"
            /\ attempts[Len(attempts)] = Attempt(result.enc, NoException)

\* The message holds the word, in any letter case.
Mentions(msg, word) == \E i \in 1..Len(msg) : MatchAtCI(msg, i, word)

\* The errors after which the contract has the next encoding tried: a
\* decoding error, or an exception other than FileNotFoundError whose
\* message mentions a codec or an encoding.
IsEncodingError(exc) ==
    \/ exc.type \in { "UnicodeDecodeError", "UnicodeError" }
    \/ /\ exc.type # "FileNotFoundError"
       /\ Mentions(exc.msg, << "c", "o", "d", "e", "c" >>) \/ Mentions(exc.msg, << "e",
                                                                                   "n",
                                                                                   "c",
                                                                                   "o",
                                                                                   "d",
                                                                                   "i",
                                                                                   "n",
                                                                                   "g" >>)

\* Every candidate has been attempted once, in order, and each attempt
\* failed with an encoding error.
AllCandidatesFailed ==
    /\ Len(attempts) = Len(encodings_to_try)
    /\ \A k \in 1..Len(attempts) :
        /\ attempts[k].enc = encodings_to_try[k]
        /\ attempts[k].exc # NoException
        /\ IsEncodingError(attempts[k].exc)

\* C18: read_transaction_csv raises the ValueError 'Could not read ... with
\* any of the tried encodings' when, and only when, every candidate
\* encoding has been attempted exactly once and each attempt failed with a
\* decoding or encoding-related error; the number of read attempts never
\* exceeds the length of the candidate list.
C18_ValueErrorIffExhausted ==
    /\ rpc \in { "loop", "done" } => Len(attempts) <= Len(encodings_to_try)
    /\ rpc = "loop" => result = NoResult
    /\ rpc = "done" =>
        (result = RaisedOut(CouldNotRead) <=> AllCandidatesFailed)

\* Called with 'cp852', the seven candidates have failed, the first with an
\* unknown-encoding LookupError and the last with a UnicodeError, and the
\* ValueError is raised.
C18_Witness ==
    /\ rpc = "done"
    /\ encoding = Str(<< "c", "p", "8", "5", "2" >>)
    /\ Len(attempts) = 7
    /\ attempts[1].exc.type = "LookupError"
    /\ attempts[7].exc.type = "UnicodeError"
    /\ result = RaisedOut(CouldNotRead)

CSV_INPUT_FILE == << "d", "a", "t", "a", "/", "d", "e", "m", "o", "_", "i",
                     "p", "k", "o", ".", "c", "s", "v" >>

CSV_ENCODING == << "i", "s", "o", "_", "8", "8", "5", "9", "_", "1" >>

CSV_OUT_FILE == << "d", "a", "t", "a", "/", "p", "r", "o", "c", "e", "s",
                   "s", "e", "d", "_", "t", "r", "a", "n", "s", "a", "c",
                   "t", "i", "o", "n", "s", ".", "c", "s", "v" >>

\* A call main makes: the function, its DataFrame argument (NoFrame when it
\* takes none) and whether it returned.
Call(fn, frame, outcome) == [fn |-> fn, arg |-> frame, outcome |-> outcome]

\* The DataFrame a step returns, made by the function from its argument.
Frame(by, from) == [by |-> by, from |-> from]

\* What a step of main may do: return, or raise.
StepOutcomes == { "returned", "raised" }

\* setup_logging()
SetupLogging ==
    /\ mpc = "start"
    /\ calls' = Append(calls, Call("setup_logging", NoFrame, "returned"))
    /\ mpc' = "logging set up"
    /\ UNCHANGED << df, processed_df >>
    /\ UNCHANGED << locationVars, readerVars, sharedVars, coreVars >>

\* read_transaction_csv(CSV_INPUT_FILE, CSV_ENCODING) is entered.
CallReadTransactionCsv ==
    /\ mpc = "logging set up"
    /\ encoding' = Str(CSV_ENCODING)
    /\ rpc' = "entry"
    /\ mpc' = "reading"
    /\ UNCHANGED << encodings_to_try, attempts, result >>
    /\ UNCHANGED << calls, df, processed_df >>
    /\ UNCHANGED << locationVars, sharedVars, coreVars >>

\* df = read_transaction_csv(...): the call has returned or raised; an
\* exception leaves main.
ReadTransactionCsvEnds ==
    /\ mpc = "reading"
    /\ rpc = "done"
    /\ calls' = Append(calls,
                       Call("read_transaction_csv", NoFrame, result.kind))
    /\ IF result.kind = "returned"
       THEN /\ df' = Frame("read_transaction_csv", NoFrame)
            /\ mpc' = "read"
       ELSE /\ df' = df
            /\ mpc' = "raised"
    /\ UNCHANGED processed_df
    /\ UNCHANGED << locationVars, readerVars, sharedVars, coreVars >>

\* processed_df = process_dataframe(df)
ProcessDataframe ==
    /\ mpc = "read"
    /\ \E outcome \in StepOutcomes :
        /\ calls' = Append(calls, Call("process_dataframe", df, outcome))
        /\ IF outcome = "returned"
           THEN /\ processed_df' = Frame("process_dataframe", df)
                /\ mpc' = "processed"
           ELSE /\ processed_df' = processed_df
                /\ mpc' = "raised"
    /\ UNCHANGED df
    /\ UNCHANGED << locationVars, readerVars, sharedVars, coreVars >>

\* export_misc_transactions(processed_df)
ExportMiscTransactions ==
    /\ mpc = "processed"
    /\ \E outcome \in StepOutcomes :
        /\ calls' = Append(calls,
                           Call("export_misc_transactions", processed_df,
                                outcome))
        /\ mpc' = IF outcome = "returned" THEN "misc exported" ELSE "raised"
    /\ UNCHANGED << df, processed_df >>
    /\ UNCHANGED << locationVars, readerVars, sharedVars, coreVars >>

\* processed_df.to_csv(CSV_OUT_FILE, columns=[...], index=False)
ExportCleanedData ==
    /\ mpc = "misc exported"
    /\ \E outcome \in StepOutcomes :
        /\ calls' = Append(calls, Call("to_csv", processed_df, outcome))
        /\ mpc' = IF outcome = "returned" THEN "done" ELSE "raised"
    /\ UNCHANGED << df, processed_df >>
    /\ UNCHANGED << locationVars, readerVars, sharedVars, coreVars >>

\* The steps of main, with those of the read_transaction_csv it calls.
NextMain ==
    \/ SetupLogging
    \/ CallReadTransactionCsv
    \/ BuildCandidates
    \/ ReadCsvReturns
    \/ ExceptUnicodeError
    \/ ExceptFileNotFoundError
    \/ ExceptException
    \/ RaiseValueError
    \/ ReadTransactionCsvEnds
    \/ ProcessDataframe
    \/ ExportMiscTransactions
    \/ ExportCleanedData

InitMain ==
    /\ arg = None
    /\ pc = "idle"
    /\ ret = Unset
    /\ tier = 0
    /\ part = 0
    /\ link = Unset
    /\ encoding = None
    /\ encodings_to_try = <<>>
    /\ attempts = <<>>
    /\ rpc = "idle"
    /\ result = NoResult
    /\ mpc = "start"
    /\ calls = <<>>
    /\ df = NoFrame
    /\ processed_df = NoFrame
    /\ tables = StaticTables
    /\ workers = <<>>
    /\ CoreIdle

SpecMain == InitMain /\ [][NextMain]_vars

\* The functions main has called, in order.
CallNames == [k \in 1..Len(calls) |-> calls[k].fn]

\* The DataFrame call k returned.
FrameOf(k) == Frame(calls[k].fn, calls[k].arg)

\* C20: main runs setup_logging, read_transaction_csv, ipko_import,
\* process_dataframe, export_misc_transactions and the export of the
\* cleaned data in this order, each step receiving the DataFrame the
\* previous one returned; when read_transaction_csv or process_dataframe
\* raises, the exception leaves main and no later step runs.
C20_StepOrder ==
    /\ mpc = "done" =>
        /\ CallNames = << "setup_logging", "read_transaction_csv",
                          "ipko_import", "process_dataframe",
                          "export_misc_transactions", "to_csv" >>
        /\ calls[3].arg = FrameOf(2)
        /\ calls[4].arg = FrameOf(3)
        /\ calls[5].arg = FrameOf(4)
        /\ calls[6].arg = FrameOf(4)
    /\ (mpc = "raised" /\ calls[Len(calls)].fn = "read_transaction_csv") =>
        CallNames = << "setup_logging", "read_transaction_csv" >>
    /\ (mpc = "raised" /\ calls[Len(calls)].fn = "process_dataframe") =>
        CallNames = << "setup_logging", "read_transaction_csv",
                       "ipko_import", "process_dataframe" >>

(***************************************************************************)
(* Concurrent invocations: each worker runs extract_location_from_data and *)
(* create_google_maps_link on its own row, step by step, on the shared     *)
(* tables                                                                  *)
(***************************************************************************)
MaxWorkers == 2

\* The rows, each with what extract_location_from_data returns for it and
\* what create_google_maps_link returns for that when run alone.
SequentialRuns ==
    { << None, Str(<<>>), Str(<<>>) >>,
      << Str(<< "k", "i", "o", "s", "k" >>), Str(<< "k", "i", "o", "s",
                                                    "k" >>), Str(<<>>) >>,
      << Str(<< "s", "h", "o", "p", "/", "/", "u", "l", ".", " ", "D", "l",
                "u", "g", "a", " ", "7" >>), Str(<< "u",
                                                                                                                                "l",
                                                                                                                                ".",
                                                                                                                                " ",
                                                                                                                                "D",
                                                                                                                                "l",
                                                                                                                                "u",
                                                                                                                                "g",
                                                                                                                                "a",
                                                                                                                                " ",
                                                                                                                                "7" >>),
         Str(MAPS_SEARCH_URL \o << "u", "l", ".", "%", "2", "0", "D", "l",
                                   "u", "g", "a", "%", "2", "0", "7" >>) >>,
      << Str(<< "S", "K", "L", "E", "P", " ", "-", " ", "u", "l", ".", " ",
                "P", "o", "l", "n", "a", " ", "3" >>), Str(<< "u",
                                                                                                                                          "l",
                                                                                                                                          ".",
                                                                                                                                          " ",
                                                                                                                                          "P",
                                                                                                                                          "o",
                                                                                                                                          "l",
                                                                                                                                          "n",
                                                                                                                                          "a",
                                                                                                                                          " ",
                                                                                                                                          "3" >>),
         Str(MAPS_SEARCH_URL \o << "u", "l", ".", "%", "2", "0", "P", "o",
                                   "l", "n", "a", "%", "2", "0", "3" >>) >>,
      << Str(<< "l", "o", "k", "a", "l", "i", "z", "a", "c", "j", "a", ":",
                " ", "a", "d", "r", "e", "s", ":", " ", "u", "l", ".", " ",
                "N", "o", "w", "a", " ", "5", " ", "m", "i", "a", "s", "t",
                "o", ":", " ", "L", "o", "d", "z" >>),
         Str(<< "u", "l", ".", " ", "N", "o", "w", "a", " ", "5", ",", " ",
                "U+0142", "U+00F3", "d", "U+017A" >>),
         Str(MAPS_SEARCH_URL
               \o << "u", "l", ".", "%", "2", "0", "N", "o", "w", "a", "%",
                     "2", "0", "5", "%", "2", "C", "%", "2", "0", "%", "C",
                     "5", "%", "8", "2", "%", "C", "3", "%", "B", "3", "d",
                     "%", "C", "5", "%", "B", "A" >>) >>,
      << Str(<< "x", " ", "-", " ", "s", "h", "o", "p" >>), Str(<< "x",
                                                                   " ",
                                                                   "-",
                                                                   " ",
                                                                   "s",
                                                                   "h",
                                                                   "o",
                                                                   "p" >>), Str(<<>>) >> }

WorkerRows == { run[1] : run \in SequentialRuns }

\* The locals of an invocation on a row.
Worker(row) ==
    [ row |-> row, pc |-> "start", parts |-> <<>>, t |-> 0,
      candidate |-> <<>>, ret |-> Unset, link |-> Unset ]

\* A membership test that puts the words it looked up into the set.
TablesAfterMemo(tbl, lowered) ==
    [tbl EXCEPT !.EXCLUDE_TERMS = @ \cup lowered]

\* The tables after the tests 'lowered in _EXCLUDE_TERMS' of a loop over the
\* parts: a lookup leaves them as they are.
TablesAfterLookup(tbl, lowered) == tbl

\* The early returns and _split_parts.
SplitRow ==
    \E w \in DOMAIN workers :
        LET me == workers[w]
        IN  /\ me.pc = "start"
            /\ workers' =
                 [workers EXCEPT ![w] =
                    IF \/ me.row.t = "None"
                       \/ me.row = Str(<<>>)
                       \/ me.row.t = "float"
                       \/ split_parts(me.row) = <<>>
                    THEN [me EXCEPT !.ret = Str(<<>>), !.pc = "extracted"]
                    ELSE [me EXCEPT !.parts = split_parts(me.row),
                                    !.t = 1, !.pc = "tiers"]]
            /\ UNCHANGED tables
            /\ UNCHANGED << locationVars, readerVars, mainVars, coreVars >>

\* One of the four loops over the parts: it finds its first part, or falls
\* through to the next loop, the last one to return ''.
TryTier ==
    \E w \in DOMAIN workers :
        LET me == workers[w]
        IN  /\ me.pc = "tiers"
            /\ workers' =
                 [workers EXCEPT ![w] =
                    IF FirstPart(me.parts, me.t) # 0
                    THEN [me EXCEPT
                            !.candidate =
                                TierCandidate(
                                    me.t,
                                    me.parts[FirstPart(me.parts, me.t)]).s,
                            !.pc = "found"]
                    ELSE IF me.t < 4 THEN [me EXCEPT !.t = me.t + 1]
                    ELSE [me EXCEPT !.ret = Str(<<>>), !.pc = "extracted"]]
            /\ tables' =
                 TablesAfterLookup(
                     tables,
                     { Lower(me.parts[i]) : i \in 1..Len(me.parts) })
            /\ UNCHANGED << locationVars, readerVars, mainVars, coreVars >>

\* return _finalise_location(...)
Finalise ==
    \E w \in DOMAIN workers :
        LET me == workers[w]
        IN  /\ me.pc = "found"
            /\ workers' =
                 [workers EXCEPT ![w] =
                    [me EXCEPT !.ret = finalise_location(me.candidate),
                               !.pc = "extracted"]]
            /\ UNCHANGED tables
            /\ UNCHANGED << locationVars, readerVars, mainVars, coreVars >>

\* create_google_maps_link on the extracted location.
BuildLink ==
    \E w \in DOMAIN workers :
        LET me == workers[w]
        IN  /\ me.pc = "extracted"
            /\ workers' =
                 [workers EXCEPT ![w] =
                    [me EXCEPT !.link = create_google_maps_link(me.ret),
                               !.pc = "done"]]
            /\ UNCHANGED tables
            /\ UNCHANGED << locationVars, readerVars, mainVars, coreVars >>

NextWorkers ==
    \/ SplitRow
    \/ TryTier
    \/ Finalise
    \/ BuildLink

InitWorkers ==
    /\ arg = None
    /\ pc = "idle"
    /\ ret = Unset
    /\ tier = 0
    /\ part = 0
    /\ link = Unset
    /\ encoding = None
    /\ encodings_to_try = <<>>
    /\ attempts = <<>>
    /\ rpc = "idle"
    /\ result = NoResult
    /\ mpc = "idle"
    /\ calls = <<>>
    /\ df = NoFrame
    /\ processed_df = NoFrame
    /\ tables = StaticTables
    /\ workers \in { [w \in 1..MaxWorkers |-> Worker(rows[w])] :
                       rows \in [1..MaxWorkers -> WorkerRows] }
    /\ CoreIdle

SpecWorkers == InitWorkers /\ [][NextWorkers]_vars

\* C16: extract_location_from_data and create_google_maps_link read only
\* their argument and the lookup tables and never modify the tables: under
\* any interleaving of invocations on different rows each invocation
\* returns what it returns when run alone, and the lexicon, indicator, city
\* and exclude-term tables are unchanged afterwards.
C16_IndependentInvocations ==
    /\ tables = StaticTables
    /\ \A w \in DOMAIN workers :
        \A run \in SequentialRuns :
            workers[w].row = run[1] =>
                /\ workers[w].pc \in { "extracted", "done" } =>
                       workers[w].ret = run[2]
                /\ workers[w].pc = "done" => workers[w].link = run[3]

\* Both invocations are done, the one that took the exclude-term loop to
\* the last tier and the one that returned in the first, each with its
\* link.
C16_Witness ==
    /\ workers[1].pc = "done"
    /\ workers[2].pc = "done"
    /\ workers[1].row = Str(<< "k", "i", "o", "s", "k" >>)
    /\ workers[1].t = 4
    /\ workers[1].ret = Str(<< "k", "i", "o", "s", "k" >>)
    /\ workers[2].t = 1
    /\ workers[2].link # Str(<<>>)
\* The dict categories of mappings, in insertion order: each category name
\* with its set of keywords (category.py).
categories ==
    << << << "F", "O", "O", "D" >>,
         { << "a", "l", "d", "i" >>,
           << "a", "u", "c", "h", "a", "n" >>,
           << "b", "i", "e", "d", "r", "o", "n", "k", "a" >>,
           << "c", "a", "r", "r", "e", "f", "o", "u", "r" >>,
           << "d", "i", "n", "o" >>,
           << "i", "n", "t", "e", "r", "m", "a", "r", "c", "h", "e" >>,
           << "i", "n", "t", "e", "r", "m", "a", "r", "c", "h", "U+00E9" >>,
           << "k", "a", "u", "f", "l", "a", "n", "d" >>,
           << "l", "i", "d", "l" >>,
           << "n", "e", "t", "t", "o" >>,
           << "t", "e", "s", "c", "o" >> } >>,
       << << "G", "R", "E", "E", "N", "F", "O", "O", "D" >>,
         { << "g", "r", "e", "e", "n", "f", "o", "o", "d" >>,
           << "m", "a", "t", "c", "h", "a" >>,
           << "y", "e", "r", "b", "a", "m", "a", "t", "e" >>,
           << "y", "e", "r", "b", "a", "m", "a", "t", "e", "s", "t", "o",
              "r", "e" >>,
           << "z", "i", "e", "l", "n", "i", "k" >>,
           << "z", "i", "e", "l", "o", "n", "y", "b", "a", "z", "a", "r" >>,
           << "z", "i", "e", "l", "o", "n", "y", "t", "a", "r", "g" >> } >>,
       << << "T", "R", "A", "N", "S", "P", "O", "R", "T", "A", "T", "I", "O", "N" >>,
         { << "a", "u", "t", "o", "b", "u", "s" >>,
           << "k", "o", "l", "e", "o" >>,
           << "m", "p", "k" >>,
           << "p", "a", "r", "k", "i", "n", "g" >>,
           << "p", "a", "r", "k", "o", "m", "a", "t" >>,
           << "p", "k", "p" >>,
           << "s", "p", "p" >>,
           << "t", "a", "x", "i" >>,
           << "t", "r", "a", "n", "s", "p", "o", "r", "t", "a", "t", "i",
              "o", "n" >>,
           << "u", "b", "e", "r" >>,
           << "z", "t", "m" >>,
           << "z", "t", "p" >> } >>,
       << << "C", "A", "R" >>,
         { << "a", "s", "t", "o", "n" >>,
           << "b", "e", "n", "t", "l", "e", "y" >>,
           << "b", "m", "w" >>,
           << "b", "u", "g", "a", "t", "t", "i" >>,
           << "c", "a", "d", "i", "l", "l", "a", "c" >>,
           << "c", "i", "t", "r", "o", "e", "n" >>,
           << "c", "o", "r", "v", "e", "t", "t", "e" >>,
           << "d", "a", "c", "i", "a" >>,
           << "f", "e", "r", "r", "a", "r", "i" >>,
           << "f", "i", "a", "t" >>,
           << "f", "o", "r", "d" >>,
           << "h", "o", "n", "d", "a" >>,
           << "h", "y", "u", "n", "d", "a", "i" >>,
           << "j", "a", "g", "u", "a", "r" >>,
           << "j", "e", "e", "p" >>,
           << "k", "i", "a" >>,
           << "k", "o", "e", "n", "i", "g", "s", "e", "g", "g" >>,
           << "l", "a", "m", "b", "o", "r", "g", "h", "i", "n", "i" >>,
           << "l", "a", "n", "c", "i", "a" >>,
           << "l", "e", "x", "u", "s" >>,
           << "m", "a", "s", "e", "r", "a", "t", "i" >>,
           << "m", "a", "z", "d", "a" >>,
           << "m", "c", "l", "a", "r", "e", "n" >>,
           << "m", "e", "r", "c", "e", "d", "e", "s" >>,
           << "n", "i", "s", "s", "a", "n" >>,
           << "o", "p", "e", "l" >>,
           << "p", "e", "u", "g", "e", "o", "t" >>,
           << "r", "e", "n", "a", "u", "l", "t" >>,
           << "r", "o", "m", "e", "o" >>,
           << "s", "k", "o", "d", "a" >>,
           << "s", "u", "b", "a", "r", "u" >>,
           << "s", "u", "z", "u", "k", "i" >>,
           << "t", "o", "y", "o", "t", "a" >>,
           << "v", "o", "l", "k", "s", "w", "a", "g", "e", "n" >>,
           << "v", "o", "l", "v", "o" >> } >>,
       << << "L", "E", "A", "S", "I", "N", "G" >>,
         { << "c", "a", "r", "2", "l", "e", "a", "s", "e" >>,
           << "c", "a", "r", "s", "m", "i", "l", "e" >>,
           << "l", "e", "a", "s", "i", "n", "g" >> } >>,
       << << "F", "U", "E", "L" >>,
         { << "a", "m", "i", "c" >>,
           << "c", "i", "r", "c", "l", "e" >>,
           << "f", "u", "e", "l" >>,
           << "l", "o", "t", "o", "s" >>,
           << "o", "r", "l", "e", "n" >>,
           << "p", "a", "l", "i", "w", "o" >>,
           << "s", "h", "e", "l", "l" >> } >>,
       << << "R", "E", "P", "A", "I", "R", "S" >>,
         { << "m", "e", "c", "h", "a", "n", "i", "c" >>,
           << "o", "p", "o", "n", "e", "o" >>,
           << "r", "e", "p", "a", "i", "r", "s" >> } >>,
       << << "C", "O", "F", "F", "E", "E" >>,
         { << "c", "a", "f", "e" >>,
           << "c", "a", "f", "f", "e" >>,
           << "c", "a", "f", "U+00E9" >>,
           << "c", "o", "f", "f", "e", "e" >>,
           << "k", "a", "w", "a" >>,
           << "k", "a", "w", "i", "a", "r", "n", "i", "a" >>,
           << "s", "t", "a", "r", "b", "u", "c", "k", "s" >> } >>,
       << << "F", "A", "S", "T", "F", "O", "O", "D" >>,
         { << "d", "o", "n", "e", "r" >>,
           << "d", "U+00F6", "n", "e", "r" >>,
           << "f", "a", "s", "t", " ", "f", "o", "o", "d" >>,
           << "f", "a", "s", "t", "f", "o", "o", "d" >>,
           << "f", "o", "o", "d", "m", "a", "x" >>,
           << "k", "e", "b", "a", "b" >>,
           << "k", "f", "c" >>,
           << "m", "c", "d", "o", "n", "a", "l", "d", "s" >>,
           << "s", "u", "b", "w", "a", "y" >>,
           << "y", "a", "l", "l", "a" >>,
           << "y", "a", "m", "m", "i" >>,
           << "z", "a", "h", "i", "r" >>,
           << "z", "a", "p", "i", "e", "k", "a", "n", "k", "i" >>,
           << "z", "a", "p", "i", "e", "k", "a", "r", "n", "i", "a" >> } >>,
       << << "G", "R", "O", "C", "E", "R", "I", "E", "S" >>,
         { << "f", "i", "s", "h" >>,
           << "g", "r", "o", "c", "e", "r", "i", "e", "s" >>,
           << "k", "-", "2" >>,
           << "p", "a", "n", "k", "e", "j", "k" >>,
           << "p", "h", "e", "n", "i", "x" >>,
           << "p", "i", "z", "z", "a" >>,
           << "r", "e", "s", "t", "a", "u", "r", "a", "c", "j", "a" >>,
           << "r", "e", "s", "t", "a", "u", "r", "a", "n", "t" >>,
           << "r", "e", "s", "t", "a", "u", "r", "a", "n", "t", "e" >>,
           << "s", "e", "a", "f", "o", "o", "d" >>,
           << "s", "p", "h", "i", "n", "x" >>,
           << "s", "u", "s", "h", "i" >> } >>,
       << << "C", "A", "T", "E", "R", "I", "N", "G" >>,
         { << "b", "o", "d", "y", "c", "h", "i", "e", "f" >>,
           << "c", "a", "t", "e", "r", "i", "n", "g" >>,
           << "l", "u", "n", "c", "h", "i", "n", "g" >> } >>,
       << << "A", "L", "C", "O", "H", "O", "L" >>,
         { << "a", "l", "c", "o", "h", "o", "l" >>,
           << "a", "p", "e", "r", "o", "l" >>,
           << "g", "u", "i", "n", "n", "e", "s", "s" >>,
           << "s", "p", "i", "r", "i", "t", "s" >>,
           << "w", "h", "i", "s", "k", "y" >> } >>,
       << << "A", "P", "A", "R", "T", "M", "E", "N", "T" >>,
         { << "a", "p", "a", "r", "t", "m", "e", "n", "t" >> } >>,
       << << "B", "I", "L", "L", "S" >>,
         { << "b", "i", "l", "l", "s" >>,
           << "i", "n", "t", "e", "r", "n", "e", "t" >>,
           << "p", "g", "e" >> } >>,
       << << "R", "E", "N", "O", "V", "A", "T", "I", "O", "N" >>,
         { << "c", "a", "s", "t", "o", "r", "a", "m", "a" >>,
           << "d", "e", "k", "o", "r", "i", "a" >>,
           << "d", "u", "k", "a" >>,
           << "h", "o", "m", "e" >>,
           << "h", "o", "m", "l", "a" >>,
           << "i", "k", "e", "a" >>,
           << "j", "y", "s", "k" >>,
           << "l", "e", "r", "o", "y" >>,
           << "r", "e", "n", "o", "v", "a", "t", "i", "o", "n" >> } >>,
       << << "C", "L", "O", "T", "H", "E", "S" >>,
         { << "4", "f" >>,
           << "a", "d", "i", "d", "a", "s" >>,
           << "b", "a", "l", "a", "n", "c", "e" >>,
           << "b", "e", "r", "s", "h", "k", "a" >>,
           << "b", "i", "g", " ", "s", "t", "a", "r" >>,
           << "c", "a", "l", "v", "i", "n" >>,
           << "c", "c", "c" >>,
           << "c", "l", "o", "p", "p", "e", "n", "b", "u", "r", "g" >>,
           << "c", "l", "o", "t", "h", "e", "s" >>,
           << "c", "o", "n", "v", "e", "r", "s", "e" >>,
           << "c", "o", "o", "p", "e", "r" >>,
           << "c", "r", "o", "p", "p" >>,
           << "d", "i", "s", "t", "a", "n", "c", "e" >>,
           << "e", "c", "c", "o" >>,
           << "e", "o", "b", "u", "w", "i", "e" >>,
           << "e", "s", "p", "i", "r", "i", "t" >>,
           << "f", "i", "l", "a" >>,
           << "g", "u", "e", "s", "s" >>,
           << "h", "&", "m" >>,
           << "h", "i", "l", "f", "i", "g", "e", "r" >>,
           << "k", "a", "z", "a", "r" >>,
           << "l", "e", "v", "i", "s" >>,
           << "m", "a", "x", "x" >>,
           << "m", "e", "d", "i", "c", "i", "n", "e" >>,
           << "n", "i", "k", "e" >>,
           << "o", "c", "h", "n", "i", "k" >>,
           << "p", "i", "e", "r", "r", "e" >>,
           << "p", "u", "m", "a" >>,
           << "r", "e", "s", "e", "r", "v", "e", "d" >>,
           << "r", "y", "U+0142", "k", "o" >>,
           << "s", "i", "z", "e", "e", "r" >>,
           << "v", "i", "s", "t", "u", "l", "a" >>,
           << "w", "i", "t", "t", "c", "h", "e", "n" >>,
           << "w", "o", "l", "c", "z", "a", "n", "k", "a" >>,
           << "w", "r", "a", "n", "g", "l", "e", "r" >>,
           << "z", "a", "l", "a", "n", "d", "o" >>,
           << "z", "a", "r", "a" >> } >>,
       << << "J", "E", "W", "E", "L", "R", "Y" >>,
         { << "a", "p", "a", "r", "t" >>,
           << "j", "e", "w", "e", "l", "r", "y" >>,
           << "k", "r", "u", "k" >>,
           << "p", "a", "n", "d", "o", "r", "a" >>,
           << "t", "o", "u", "s" >> } >>,
       << << "E", "N", "T", "E", "R", "T", "A", "I", "N", "M", "E", "N", "T" >>,
         { << "a", "q", "u", "a", "p", "a", "r", "k" >>,
           << "b", "i", "l", "e", "t" >>,
           << "b", "i", "l", "l", "i", "a", "r", "d", "s" >>,
           << "c", "i", "n", "e", "m", "a" >>,
           << "d", "a", "r", "t", "s" >>,
           << "e", "b", "i", "l", "e", "t" >>,
           << "e", "n", "t", "e", "r", "t", "a", "i", "n", "m", "e", "n",
              "t" >>,
           << "k", "i", "n", "o" >>,
           << "m", "u", "z", "e", "u", "m" >>,
           << "t", "e", "a", "t", "r" >>,
           << "v", "o", "d" >> } >>,
       << << "P", "C", "G", "A", "M", "E", "S" >>,
         { << "c", "d", "p", "r", "o", "j", "e", "k", "t", "r", "e", "d" >>,
           << "p", "c", " ", "g", "a", "m", "e", "s" >>,
           << "p", "l", "a", "y", "s", "t", "a", "t", "i", "o", "n" >>,
           << "r", "o", "c", "k", "s", "t", "a", "r" >>,
           << "s", "t", "e", "a", "m" >>,
           << "x", "b", "o", "x" >> } >>,
       << << "B", "I", "K", "E" >>,
         { << "b", "'", "t", "w", "i", "n" >>,
           << "b", "i", "a", "n", "c", "h", "i" >>,
           << "b", "i", "k", "e", "s", "a", "l", "o", "n" >>,
           << "c", "a", "n", "n", "o", "n", "d", "a", "l", "e" >>,
           << "c", "a", "n", "y", "o", "n" >>,
           << "c", "e", "n", "t", "r", "u", "m", "r", "o", "w", "e", "r",
              "o", "w", "e" >>,
           << "c", "y", "k", "l", "o", "m", "a", "n", "i", "a" >>,
           << "f", "e", "l", "t" >>,
           << "g", "h", "o", "s", "t" >>,
           << "g", "i", "a", "n", "t" >>,
           << "g", "r", "a", "v", "e", "l" >>,
           << "k", "e", "l", "l", "y", "s" >>,
           << "k", "r", "o", "s", "s" >>,
           << "l", "o", "c", "a" >>,
           << "m", "e", "r", "i", "d", "a" >>,
           << "m", "o", "n", "d", "r", "a", "k", "e", "r" >>,
           << "o", "r", "b", "e", "a" >>,
           << "r", "o", "m", "e", "t" >>,
           << "r", "o", "n", "d", "o" >>,
           << "s", "c", "o", "t", "t" >>,
           << "s", "p", "e", "c", "i", "a", "l", "i", "z", "e", "d" >>,
           << "s", "u", "p", "e", "r", "i", "o", "r" >>,
           << "t", "r", "e", "k" >> } >>,
       << << "S", "P", "O", "R", "T" >>,
         { << "b", "a", "b", "o", "l", "a", "t" >>,
           << "c", "l", "i", "m", "b", "i", "n", "g" >>,
           << "d", "e", "c", "a", "t", "h", "l", "o", "n" >>,
           << "s", "p", "o", "r", "t" >>,
           << "t", "e", "n", "i", "s" >>,
           << "w", "i", "l", "s", "o", "n" >> } >>,
       << << "P", "H", "A", "R", "M", "A", "C", "Y" >>,
         { << "a", "p", "t", "e", "k", "a" >>,
           << "m", "e", "l", "i", "s", "s", "a" >>,
           << "p", "h", "a", "r", "m", "a", "c", "y" >>,
           << "s", "u", "p", "e", "r", " ", "-", " ", "p", "h", "a", "r",
              "m" >> } >>,
       << << "C", "O", "S", "M", "E", "T", "I", "C", "S" >>,
         { << "c", "o", "s", "m", "e", "t", "i", "c", "s" >>,
           << "d", "o", "u", "g", "l", "a", "s" >>,
           << "e", "c", "o", "f", "l", "o", "r", "e", "s" >>,
           << "k", "s", "i", "s", "t", "e", "r", "s" >>,
           << "r", "o", "s", "s", "m", "a", "n", "n" >>,
           << "s", "e", "p", "h", "o", "r", "a" >> } >>,
       << << "T", "R", "A", "V", "E", "L" >>,
         { << "a", "i", "r", "l", "i", "n", "e", "s" >>,
           << "c", "o", "r", "a", "l" >>,
           << "f", "l", "i", "x", "b", "u", "s" >>,
           << "i", "a", "k", "a" >>,
           << "l", "u", "f", "t", "h", "a", "n", "s", "a" >>,
           << "r", "a", "i", "n", "b", "o", "w" >>,
           << "r", "y", "a", "n", "a", "i", "r" >>,
           << "t", "r", "a", "v", "e", "l" >>,
           << "w", "i", "z", "z" >> } >>,
       << << "B", "O", "O", "K", "S" >>,
         { << "a", "u", "d", "i", "o", "t", "e", "k", "a" >>,
           << "b", "o", "o", "k", "s" >>,
           << "l", "e", "g", "i", "m", "i" >>,
           << "s", "t", "o", "r", "y", "t", "e", "l" >> } >>,
       << << "A", "N", "I", "M", "A", "L", "S" >>,
         { << "a", "n", "i", "m", "a", "l", "s" >>,
           << "d", "o", "g" >>,
           << "k", "a", "r", "m", "a" >>,
           << "w", "e", "t", "e", "r", "y", "n", "a", "r", "z" >> } >>,
       << << "I", "N", "S", "U", "R", "A", "N", "C", "E" >>,
         { << "a", "l", "l", "i", "a", "n", "z" >>,
           << "g", "e", "n", "e", "r", "a", "l", "i" >>,
           << "i", "n", "s", "u", "r", "a", "n", "c", "e" >>,
           << "l", "i", "n", "k", "4" >>,
           << "p", "z", "u" >>,
           << "u", "f", "g" >>,
           << "u", "n", "i", "q", "a" >>,
           << "w", "a", "r", "t", "a" >> } >>,
       << << "S", "U", "B", "S", "C", "R", "I", "P", "T", "I", "O", "N", "S" >>,
         { << "c", "a", "n", "a", "l" >>,
           << "c", "d", "a" >>,
           << "d", "i", "s", "n", "e", "y" >>,
           << "h", "b", "o" >>,
           << "h", "u", "l", "u" >>,
           << "n", "e", "t", "f", "l", "i", "x" >>,
           << "p", "a", "r", "a", "m", "o", "u", "n", "t" >>,
           << "p", "r", "i", "m", "e" >>,
           << "s", "h", "o", "w", "t", "i", "m", "e" >>,
           << "s", "p", "o", "t", "i", "f", "y" >>,
           << "s", "u", "b", "s", "c", "r", "i", "p", "t", "i", "o", "n",
              "s" >>,
           << "t", "e", "n", "c", "e", "n", "t" >>,
           << "t", "i", "d", "a", "l" >>,
           << "y", "o", "u", "t", "u", "b", "e" >> } >>,
       << << "I", "N", "V", "E", "S", "T", "M", "E", "N", "T", "S" >>,
         { << "b", "o", "s", "s", "a" >>,
           << "b", "r", "o", "k", "e", "r", "s" >>,
           << "d", "e", "g", "i", "r", "o" >>,
           << "e", "t", "o", "r", "o" >>,
           << "e", "x", "a", "n", "t", "e" >>,
           << "f", "i", "r", "s", "t", "r", "a", "d", "e" >>,
           << "i", "n", "v", "e", "s", "t", "m", "e", "n", "t", "s" >>,
           << "p", "l", "u", "s", "5", "0", "0" >>,
           << "t", "f", "i" >>,
           << "t", "r", "a", "d", "i", "n", "g", "2", "1", "2" >>,
           << "x", "t", "b" >> } >>,
       << << "S", "E", "L", "F", "_", "D", "E", "V", "E", "L", "O", "P", "M", "E",
   "N", "T" >>,
         { << "c", "o", "d", "e", "r", "s", "l", "a", "b" >>,
           << "c", "o", "u", "r", "s", "e" >>,
           << "e", "d", "u", "w", "e", "b" >>,
           << "s", "e", "l", "f", " ", "d", "e", "v", "e", "l", "o", "p",
              "m", "e", "n", "t" >>,
           << "s", "k", "i", "l", "l", "s", "h", "a", "r", "e" >>,
           << "u", "d", "e", "m", "y" >> } >>,
       << << "E", "L", "E", "C", "T", "R", "O", "N", "I", "C" >>,
         { << "a", "p", "p", "l", "e" >>,
           << "e", "l", "e", "c", "t", "r", "o", "n", "i", "c" >>,
           << "e", "u", "r", "o", ".", "c", "o", "m" >>,
           << "k", "o", "m", "p", "u", "t", "r", "o", "n", "i", "k" >>,
           << "m", "o", "r", "e", "l", "e" >>,
           << "x", "k", "o", "m" >> } >>,
       << << "S", "E", "L", "F", "_", "C", "A", "R", "E" >>,
         { << "b", "e", "a", "u", "t", "y" >>,
           << "f", "r", "y", "z", "j", "e", "r" >>,
           << "n", "a", "i", "l", "s" >> } >>,
       << << "K", "I", "D", "S" >>,
         { << "c", "h", "i", "l", "d", "r", "e", "n" >>,
           << "k", "i", "d", "s" >>,
           << "t", "o", "y", "s" >> } >>,
       << << "S", "H", "O", "P", "P", "I", "N", "G" >>,
         { << "a", "l", "l", "e", "g", "r", "o" >>,
           << "a", "m", "a", "z", "o", "n" >>,
           << "e", "m", "p", "i", "k" >>,
           << "o", "l", "x" >>,
           << "s", "h", "o", "p", "p", "i", "n", "g" >> } >>,
       << << "M", "I", "S", "C" >>,
         {} >> >>

\* all_category
all_category ==
    << << "F", "O", "O", "D" >>,
       << "G", "R", "E", "E", "N", "F", "O", "O", "D" >>,
       << "T", "R", "A", "N", "S", "P", "O", "R", "T", "A", "T", "I", "O",
          "N" >>,
       << "C", "A", "R" >>,
       << "L", "E", "A", "S", "I", "N", "G" >>,
       << "F", "U", "E", "L" >>,
       << "R", "E", "P", "A", "I", "R", "S" >>,
       << "C", "O", "F", "F", "E", "E" >>,
       << "F", "A", "S", "T", "F", "O", "O", "D" >>,
       << "G", "R", "O", "C", "E", "R", "I", "E", "S" >>,
       << "C", "A", "T", "E", "R", "I", "N", "G" >>,
       << "A", "L", "C", "O", "H", "O", "L" >>,
       << "A", "P", "A", "R", "T", "M", "E", "N", "T" >>,
       << "B", "I", "L", "L", "S" >>,
       << "R", "E", "N", "O", "V", "A", "T", "I", "O", "N" >>,
       << "C", "L", "O", "T", "H", "E", "S" >>,
       << "J", "E", "W", "E", "L", "R", "Y" >>,
       << "E", "N", "T", "E", "R", "T", "A", "I", "N", "M", "E", "N", "T" >>,
       << "P", "C", "G", "A", "M", "E", "S" >>,
       << "B", "I", "K", "E" >>,
       << "S", "P", "O", "R", "T" >>,
       << "P", "H", "A", "R", "M", "A", "C", "Y" >>,
       << "C", "O", "S", "M", "E", "T", "I", "C", "S" >>,
       << "T", "R", "A", "V", "E", "L" >>,
       << "B", "O", "O", "K", "S" >>,
       << "A", "N", "I", "M", "A", "L", "S" >>,
       << "I", "N", "S", "U", "R", "A", "N", "C", "E" >>,
       << "S", "U", "B", "S", "C", "R", "I", "P", "T", "I", "O", "N", "S" >>,
       << "I", "N", "V", "E", "S", "T", "M", "E", "N", "T", "S" >>,
       << "S", "E", "L", "F", "_", "D", "E", "V", "E", "L", "O", "P", "M",
          "E", "N", "T" >>,
       << "E", "L", "E", "C", "T", "R", "O", "N", "I", "C" >>,
       << "S", "E", "L", "F", "_", "C", "A", "R", "E" >>,
       << "K", "I", "D", "S" >>,
       << "S", "H", "O", "P", "P", "I", "N", "G" >>,
       << "M", "I", "S", "C" >> >>
(***************************************************************************)
(* mappings: the keyword lookup of the categoriser                         *)
(***************************************************************************)
\* DEFAULT_CATEGORY
DEFAULT_CATEGORY == << "M", "I", "S", "C" >>

\* keyword in text, the text taken as it is written.
KeywordInExact(text, keyword) == Contains(text, keyword)

\* keyword in data.lower()
KeywordIn(text, keyword) == Contains(Lower(text), keyword)

\* any(keyword in data.lower() for keyword in keywords)
AnyKeywordIn(text, keywords) == \E keyword \in keywords : KeywordIn(text, keyword)

\* The loop over categories.items() from its k-th entry on: the first
\* category with a keyword in the text, DEFAULT_CATEGORY after the last.
RECURSIVE CategoryFrom(_, _)
CategoryFrom(text, k) ==
    IF k > Len(categories) THEN DEFAULT_CATEGORY
    ELSE IF AnyKeywordIn(text, categories[k][2]) THEN categories[k][1]
    ELSE CategoryFrom(text, k + 1)

\* mappings(data): a value without lower() raises at the first keyword.
mappings(v) ==
    IF IsStr(v) THEN Str(CategoryFrom(v.s, 1)) ELSE Raised("AttributeError")

\* A call of mappings on the argument data.
Mappings ==
    /\ core_pc = "mappings"
    /\ category' = mappings(data)
    /\ core_pc' = "mapped"
    /\ UNCHANGED << data, expense, core_df, snapshots >>
    /\ UNCHANGED << locationVars, readerVars, mainVars, sharedVars >>

NextMappings == Mappings

\* Nothing but the categoriser runs.
OthersIdle ==
    /\ arg = None
    /\ pc = "idle"
    /\ ret = Unset
    /\ tier = 0
    /\ part = 0
    /\ link = Unset
    /\ encoding = None
    /\ encodings_to_try = <<>>
    /\ attempts = <<>>
    /\ rpc = "idle"
    /\ result = NoResult
    /\ mpc = "idle"
    /\ calls = <<>>
    /\ df = NoFrame
    /\ processed_df = NoFrame
    /\ tables = StaticTables
    /\ workers = <<>>

(***************************************************************************)
(* Arguments of mappings: an empty cell and short texts of shop names in   *)
(* either case, pieces of keywords and blanks                              *)
(***************************************************************************)
MaxWords == 3

Words ==
    { << " " >>, << "L", "I", "D", "L" >>, << "U", "b", "e", "r" >>, << "a",
                                                                        "p",
                                                                        "a",
                                                                        "r",
                                                                        "t" >>, << "m",
                                                                                                                                                                                                                                                                                                                                                                                                       "e",
                                                                                                                                                                                                                                                                                                                                                                                                       "n",
                                                                                                                                                                                                                                                                                                                                                                                                       "t" >>, << "t",
                                                                                                                                                                                                                                                                                                                                                                                                                                                                                                                                                                                                                                                                                                                                                                                                                                                                                                                                                                                                                                                                                                                                                                                                                                                                                                                                                                                                                                                                                                                                                                                                                                                      "r",
                                                                                                                                                                                                                                                                                                                                                                                                                                                                                                                                                                                                                                                                                                                                                                                                                                                                                                                                                                                                                                                                                                                                                                                                                                                                                                                                                                                                                                                                                                                                                                                                                                                      "a",
                                                                                                                                                                                                                                                                                                                                                                                                                                                                                                                                                                                                                                                                                                                                                                                                                                                                                                                                                                                                                                                                                                                                                                                                                                                                                                                                                                                                                                                                                                                                                                                                                                                      "n" >>, << "s",
                                                                                                                                                                                                                                                                                                                                                                                                                                                                                                                                                                                                                                                                                                                                                                                                                                                                                                                                                                                                                                                                                                                                                                                                                                                                                                                                                                                                                                                                                                                                                                                                                                                                                                                                                                                                                                                                                                                                                                                                                                                                                                                                                                                                                                                                                                                                                                                                                                                                                                                                                                                                                                                                                                                                                                                                                                                                                                                                                                                                                                                                                                                                                                                                                                                                                                                                                                                                                                                                                                                                                                                                                                                                                                                                                                                                                                                                                                                                                                                                                                                                                                                                                                                                                                                                                                                                                                                                                                                                                                                                                                                                                                                                                                                                                                                                                                                                                                                                                                                                                                                                                                                                                                                                                                                                                                                                                                                                                                                                                                                                                                                                                                                                                                                                                                                                                                                                                                                                                                                                                                                                                                                                                                                                                                                                                                                                                                                                                                                                                                                                                                                                                                                  "p",
                                                                                                                                                                                                                                                                                                                                                                                                                                                                                                                                                                                                                                                                                                                                                                                                                                                                                                                                                                                                                                                                                                                                                                                                                                                                                                                                                                                                                                                                                                                                                                                                                                                                                                                                                                                                                                                                                                                                                                                                                                                                                                                                                                                                                                                                                                                                                                                                                                                                                                                                                                                                                                                                                                                                                                                                                                                                                                                                                                                                                                                                                                                                                                                                                                                                                                                                                                                                                                                                                                                                                                                                                                                                                                                                                                                                                                                                                                                                                                                                                                                                                                                                                                                                                                                                                                                                                                                                                                                                                                                                                                                                                                                                                                                                                                                                                                                                                                                                                                                                                                                                                                                                                                                                                                                                                                                                                                                                                                                                                                                                                                                                                                                                                                                                                                                                                                                                                                                                                                                                                                                                                                                                                                                                                                                                                                                                                                                                                                                                                                                                                                                                                                                  "o",
                                                                                                                                                                                                                                                                                                                                                                                                                                                                                                                                                                                                                                                                                                                                                                                                                                                                                                                                                                                                                                                                                                                                                                                                                                                                                                                                                                                                                                                                                                                                                                                                                                                                                                                                                                                                                                                                                                                                                                                                                                                                                                                                                                                                                                                                                                                                                                                                                                                                                                                                                                                                                                                                                                                                                                                                                                                                                                                                                                                                                                                                                                                                                                                                                                                                                                                                                                                                                                                                                                                                                                                                                                                                                                                                                                                                                                                                                                                                                                                                                                                                                                                                                                                                                                                                                                                                                                                                                                                                                                                                                                                                                                                                                                                                                                                                                                                                                                                                                                                                                                                                                                                                                                                                                                                                                                                                                                                                                                                                                                                                                                                                                                                                                                                                                                                                                                                                                                                                                                                                                                                                                                                                                                                                                                                                                                                                                                                                                                                                                                                                                                                                                                                  "r",
                                                                                                                                                                                                                                                                                                                                                                                                                                                                                                                                                                                                                                                                                                                                                                                                                                                                                                                                                                                                                                                                                                                                                                                                                                                                                                                                                                                                                                                                                                                                                                                                                                                                                                                                                                                                                                                                                                                                                                                                                                                                                                                                                                                                                                                                                                                                                                                                                                                                                                                                                                                                                                                                                                                                                                                                                                                                                                                                                                                                                                                                                                                                                                                                                                                                                                                                                                                                                                                                                                                                                                                                                                                                                                                                                                                                                                                                                                                                                                                                                                                                                                                                                                                                                                                                                                                                                                                                                                                                                                                                                                                                                                                                                                                                                                                                                                                                                                                                                                                                                                                                                                                                                                                                                                                                                                                                                                                                                                                                                                                                                                                                                                                                                                                                                                                                                                                                                                                                                                                                                                                                                                                                                                                                                                                                                                                                                                                                                                                                                                                                                                                                                                                  "t" >>, << "a",
                                                                                                                                                                                                                                                                                                                                                                                                                                                                                                                                                                                                                                                                                                                                                                                                                                                                                                                                                                                                                                                                                                                                                                                                                                                                                                                                                                                                                                                                                                                                                                                                                                                                                                                                                                                                                                                                                                                                                                                                                                                                                                                                                                                                                                                                                                                                                                                                                                                                                                                                                                                                                                                                                                                                                                                                                                                                                                                                                                                                                                                                                                                                                                                                                                                                                                                                                                                                                                                                                                                                                                                                                                                                                                                                                                                                                                                                                                                                                                                                                                                                                                                                                                                                                                                                                                                                                                                                                                                                                                                                                                                                                                                                                                                                                                                                                                                                                                                                                                                                                                                                                                                                                                                                                                                                                                                                                                                                                                                                                                                                                                                                                                                                                                                                                                                                                                                                                                                                                                                                                                                                                                                                                                                                                                                                                                                                                                                                                                                                                                                                                                                                                                                                                                                                                                                                                                                                                                                                                                                                                                                                                                                                                                                                                                                                                                                                                                                                                                                                                                                                                                                                                                                                                                                                                                                                                                                                                                                                                                                                                                                                                                                                                                                                                                                                                                                                                                                                                                                                                                                                                                                                                                                                                                                                                                                                                                                                                                                                                                                                                                                                                                                                                                                                                                                                                                                                                                                                                                                                                                                                                                                                                                                                                                                                                                                                                                                                                                                                                                                                                                                                                                                                                                                                                                                                                                                                                                                                                                                                                                                                                                                                                                                                                                                                                                                                                                                                                                                                                                                                                                                                                                                                                                                                                                                                                                                                                                                                                                                                                                                                                                                                                                                                                                                                                                                                                                                                                                                                                                                                                                                                                                                                                                                                                                                                                                                                                                                                                                                                                                                                                                                                                                                                                                                                                                                                                                                                                                                                                                                                                                                                                                                                                                                                                                                                                                                                                                                                                                                                                                                                                                                                                                                                                                                                                                                                                                                                                                                                                                                                                                                                                                                                                                                                                                                                                                                                                                                                                                                                                                                                                                                                                                                                                                                                                                                                                                                                                                                                                                                                                                                                                                                                                                                                                                                                                                                                                                                                                                                                                                                                                                                                                                                                                                                                                                                                                                                                                                                                                                                                                                                                                                                                                                                                                                                                                                                                                                                                                                                                                                                                                                                                                                                                                                                                                                                                                                                                                                                                                                                                                                                                                                                                                                                                                                                                                                                                                                                                                                                                                                                                                                                                                                                                                                                                                                                                                                                                                                                                                                                                                                                                                                                                                                                                                                                                                                                                                                                                                                                                                                                                                                                                                                                                                                                                                                                                                                                                                                                                                                                                                                                                                                                                                                                                                                                                                                                                                                                                                                                                                                                                                                                                                                                                                                                                                                                                                                                                                                                                                                                                                                                                                                                                                                                                                                                                                                                                                                                                                                                                                                                                                                                                                                                                                                                                                                                                                                                                                                                                                                                                                                                                                                                                                                                                                                                                                                                                                                                                                                                                                                                                                                                                                                                                                                                                                                                                                                                                                                                                                                                                                                                                                                                                                                                                                                                                                                                                                                                                                                                                                                                                                                                                                                                                                                                                                                                                                                                                                                                                                                                                                                                                                                                                                                                                                                                                                                                                                                                                                                                                                                                                                                                                                                                                                                                                                                                                                                                                                                                                                                                                                                                                                                                                                                                                                                                                                                                                                                                                                                                                                                                                                                                                                                                                                                                                                                                                                                                                                                                                                                                                                                                                                                                                                                                                                                                                                                                                                                                                                                                                                                                                                                                                                                                                                                                                                                                                                                                                                                                                                                                                                                                                                                                                                                                                                                                                                                                                                                                                                                                                                                                                                                                                                                                                                                                                                                                                                                                                                                                                                                                                                                                                                                                                                                                                                                                                                                                                                                                                                                                                                                                                                                                                                                                                                                                                                                                                                                                                                                                                                                                                                                                                                                                                                                                                                                                                                                                                                                                                                                                                                                                                                                                                                                                                                                                                                                                                                                                                                                                                                                                                                                                                                                                                                                                                                                                                                                                                                                                                                                                                                                                                                                                                                                                                                                                                                                                                                                                                                                                                                                                                                                                                                                                                                                                                                                                                                                                                                                                                                                                                                                                                                                                                                                                                                                                                                                                                                                                                                                                                                                                                                                                                                                                                                                                                                                                                                                                                                                                                                                                                                                                                                                                                                                                                                                                                                                                                                                                                                                                                                                                                                                                                                                                                                                                                                                                                                                                                                                                                                                                                                                                                                                                                                                                                                                                                                                                                                                                                                                                                                                                                                                                                                                                                                                                                                                                                                         "t",
                                                                                                                                                                                                                                                                                                                                                                                                                                                                                                                                                                                                                                                                                                                                                                                                                                                                                                                                                                                                                                                                                                                                                                                                                                                                                                                                                                                                                                                                                                                                                                                                                                                                                                                                                                                                                                                                                                                                                                                                                                                                                                                                                                                                                                                                                                                                                                                                                                                                                                                                                                                                                                                                                                                                                                                                                                                                                                                                                                                                                                                                                                                                                                                                                                                                                                                                                                                                                                                                                                                                                                                                                                                                                                                                                                                                                                                                                                                                                                                                                                                                                                                                                                                                                                                                                                                                                                                                                                                                                                                                                                                                                                                                                                                                                                                                                                                                                                                                                                                                                                                                                                                                                                                                                                                                                                                                                                                                                                                                                                                                                                                                                                                                                                                                                                                                                                                                                                                                                                                                                                                                                                                                                                                                                                                                                                                                                                                                                                                                                                                                                                                                                                                                                                                                                                                                                                                                                                                                                                                                                                                                                                                                                                                                                                                                                                                                                                                                                                                                                                                                                                                                                                                                                                                                                                                                                                                                                                                                                                                                                                                                                                                                                                                                                                                                                                                                                                                                                                                                                                                                                                                                                                                                                                                                                                                                                                                                                                                                                                                                                                                                                                                                                                                                                                                                                                                                                                                                                                                                                                                                                                                                                                                                                                                                                                                                                                                                                                                                                                                                                                                                                                                                                                                                                                                                                                                                                                                                                                                                                                                                                                                                                                                                                                                                                                                                                                                                                                                                                                                                                                                                                                                                                                                                                                                                                                                                                                                                                                                                                                                                                                                                                                                                                                                                                                                                                                                                                                                                                                                                                                                                                                                                                                                                                                                                                                                                                                                                                                                                                                                                                                                                                                                                                                                                                                                                                                                                                                                                                                                                                                                                                                                                                                                                                                                                                                                                                                                                                                                                                                                                                                                                                                                                                                                                                                                                                                                                                                                                                                                                                                                                                                                                                                                                                                                                                                                                                                                                                                                                                                                                                                                                                                                                                                                                                                                                                                                                                                                                                                                                                                                                                                                                                                                                                                                                                                                                                                                                                                                                                                                                                                                                                                                                                                                                                                                                                                                                                                                                                                                                                                                                                                                                                                                                                                                                                                                                                                                                                                                                                                                                                                                                                                                                                                                                                                                                                                                                                                                                                                                                                                                                                                                                                                                                                                                                                                                                                                                                                                                                                                                                                                                                                                                                                                                                                                                                                                                                                                                                                                                                                                                                                                                                                                                                                                                                                                                                                                                                                                                                                                                                                                                                                                                                                                                                                                                                                                                                                                                                                                                                                                                                                                                                                                                                                                                                                                                                                                                                                                                                                                                                                                                                                                                                                                                                                                                                                                                                                                                                                                                                                                                                                                                                                                                                                                                                                                                                                                                                                                                                                                                                                                                                                                                                                                                                                                                                                                                                                                                                                                                                                                                                                                                                                                                                                                                                                                                                                                                                                                                                                                                                                                                                                                                                                                                                                                                                                                                                                                                                                                                                                                                                                                                                                                                                                                                                                                                                                                                                                                                                                                                                                                                                                                                                                                                                                                                                                                                                                                                                                                                                                                                                                                                                                                                                                                                                                                                                                                                                                                                                                                                                                                                                                                                                                                                                                                                                                                                                                                                                                                                                                                                                                                                                                                                                                                                                                                                                                                                                                                                                                                                                                                                                                                                                                                                                                                                                                                                                                                                                                                                                                                                                                                                                                                                                                                                                                                                                                                                                                                                                                                                                                                                                                                                                                                                                                                                                                                                                                                                                                                                                                                                                                                                                                                                                                                                                                                                                                                                                                                                                                                                                                                                                                                                                                                                                                                                                                                                                                                                                                                                                                                                                                                                                                                                                                                                                                                                                                                                                                                                                                                                                                                                                                                                                                                                                                                                                                                                                                                                                                                                                                                                                                                                                                                                                                                                                                                                                                                                                                                                                                                                                                                                                                                                                                                                                                                                                                                                                                                                                                                                                                                                                                                                                                                                                                                                                                                                                                                                                                                                                                                                                                                                                                                                                                                                                                                                                                                                                                                                                                                                                                                                                                                                                                                                                                                                                                                                                                                                                                                                                                                                                                                                                                                                                                                                                                                                                                                                                                                                                                                                                                                                                                                                                                                                                                                                                                                                                                                                                                                                                                                                                                                                                                                                                                                                                                                                                                                                                                                                                                                                                                                                                                                                                                                                                                                                                                                                                                                                                                                                                                                                                                                                                                                                                                                                                                                                                                                                                                                                                                                                                                                                                                                                                                                                                                                                                                         "i",
                                                                                                                                                                                                                                                                                                                                                                                                                                                                                                                                                                                                                                                                                                                                                                                                                                                                                                                                                                                                                                                                                                                                                                                                                                                                                                                                                                                                                                                                                                                                                                                                                                                                                                                                                                                                                                                                                                                                                                                                                                                                                                                                                                                                                                                                                                                                                                                                                                                                                                                                                                                                                                                                                                                                                                                                                                                                                                                                                                                                                                                                                                                                                                                                                                                                                                                                                                                                                                                                                                                                                                                                                                                                                                                                                                                                                                                                                                                                                                                                                                                                                                                                                                                                                                                                                                                                                                                                                                                                                                                                                                                                                                                                                                                                                                                                                                                                                                                                                                                                                                                                                                                                                                                                                                                                                                                                                                                                                                                                                                                                                                                                                                                                                                                                                                                                                                                                                                                                                                                                                                                                                                                                                                                                                                                                                                                                                                                                                                                                                                                                                                                                                                                                                                                                                                                                                                                                                                                                                                                                                                                                                                                                                                                                                                                                                                                                                                                                                                                                                                                                                                                                                                                                                                                                                                                                                                                                                                                                                                                                                                                                                                                                                                                                                                                                                                                                                                                                                                                                                                                                                                                                                                                                                                                                                                                                                                                                                                                                                                                                                                                                                                                                                                                                                                                                                                                                                                                                                                                                                                                                                                                                                                                                                                                                                                                                                                                                                                                                                                                                                                                                                                                                                                                                                                                                                                                                                                                                                                                                                                                                                                                                                                                                                                                                                                                                                                                                                                                                                                                                                                                                                                                                                                                                                                                                                                                                                                                                                                                                                                                                                                                                                                                                                                                                                                                                                                                                                                                                                                                                                                                                                                                                                                                                                                                                                                                                                                                                                                                                                                                                                                                                                                                                                                                                                                                                                                                                                                                                                                                                                                                                                                                                                                                                                                                                                                                                                                                                                                                                                                                                                                                                                                                                                                                                                                                                                                                                                                                                                                                                                                                                                                                                                                                                                                                                                                                                                                                                                                                                                                                                                                                                                                                                                                                                                                                                                                                                                                                                                                                                                                                                                                                                                                                                                                                                                                                                                                                                                                                                                                                                                                                                                                                                                                                                                                                                                                                                                                                                                                                                                                                                                                                                                                                                                                                                                                                                                                                                                                                                                                                                                                                                                                                                                                                                                                                                                                                                                                                                                                                                                                                                                                                                                                                                                                                                                                                                                                                                                                                                                                                                                                                                                                                                                                                                                                                                                                                                                                                                                                                                                                                                                                                                                                                                                                                                                                                                                                                                                                                                                                                                                                                                                                                                                                                                                                                                                                                                                                                                                                                                                                                                                                                                                                                                                                                                                                                                                                                                                                                                                                                                                                                                                                                                                                                                                                                                                                                                                                                                                                                                                                                                                                                                                                                                                                                                                                                                                                                                                                                                                                                                                                                                                                                                                                                                                                                                                                                                                                                                                                                                                                                                                                                                                                                                                                                                                                                                                                                                                                                                                                                                                                                                                                                                                                                                                                                                                                                                                                                                                                                                                                                                                                                                                                                                                                                                                                                                                                                                                                                                                                                                                                                                                                                                                                                                                                                                                                                                                                                                                                                                                                                                                                                                                                                                                                                                                                                                                                                                                                                                                                                                                                                                                                                                                                                                                                                                                                                                                                                                                                                                                                                                                                                                                                                                                                                                                                                                                                                                                                                                                                                                                                                                                                                                                                                                                                                                                                                                                                                                                                                                                                                                                                                                                                                                                                                                                                                                                                                                                                                                                                                                                                                                                                                                                                                                                                                                                                                                                                                                                                                                                                                                                                                                                                                                                                                                                                                                                                                                                                                                                                                                                                                                                                                                                                                                                                                                                                                                                                                                                                                                                                                                                                                                                                                                                                                                                                                                                                                                                                                                                                                                                                                                                                                                                                                                                                                                                                                                                                                                                                                                                                                                                                                                                                                                                                                                                                                                                                                                                                                                                                                                                                                                                                                                                                                                                                                                                                                                                                                                                                                                                                                                                                                                                                                                                                                                                                                                                                                                                                                                                                                                                                                                                                                                                                                                                                                                                                                                                                                                                                                                                                                                                                                                                                                                                                                                                                                                                                                                                                                                                                                                                                                                                                                                                                                                                                                                                                                                                                                                                                                                                                                                                                                                                                                                                                                                                                                                                                                                                                                                                                                                                                                                                                                                                                                                                                                                                                                                                                                                                                                                                                                                                                                                                                                                                                                                                                                                                                                                                                                                                                                                                                                                                                                                                                                                                                                                                                                                                                                                                                                                                                                                                                                                                                                                                                                                                         "o",
                                                                                                                                                                                                                                                                                                                                                                                                                                                                                                                                                                                                                                                                                                                                                                                                                                                                                                                                                                                                                                                                                                                                                                                                                                                                                                                                                                                                                                                                                                                                                                                                                                                                                                                                                                                                                                                                                                                                                                                                                                                                                                                                                                                                                                                                                                                                                                                                                                                                                                                                                                                                                                                                                                                                                                                                                                                                                                                                                                                                                                                                                                                                                                                                                                                                                                                                                                                                                                                                                                                                                                                                                                                                                                                                                                                                                                                                                                                                                                                                                                                                                                                                                                                                                                                                                                                                                                                                                                                                                                                                                                                                                                                                                                                                                                                                                                                                                                                                                                                                                                                                                                                                                                                                                                                                                                                                                                                                                                                                                                                                                                                                                                                                                                                                                                                                                                                                                                                                                                                                                                                                                                                                                                                                                                                                                                                                                                                                                                                                                                                                                                                                                                                                                                                                                                                                                                                                                                                                                                                                                                                                                                                                                                                                                                                                                                                                                                                                                                                                                                                                                                                                                                                                                                                                                                                                                                                                                                                                                                                                                                                                                                                                                                                                                                                                                                                                                                                                                                                                                                                                                                                                                                                                                                                                                                                                                                                                                                                                                                                                                                                                                                                                                                                                                                                                                                                                                                                                                                                                                                                                                                                                                                                                                                                                                                                                                                                                                                                                                                                                                                                                                                                                                                                                                                                                                                                                                                                                                                                                                                                                                                                                                                                                                                                                                                                                                                                                                                                                                                                                                                                                                                                                                                                                                                                                                                                                                                                                                                                                                                                                                                                                                                                                                                                                                                                                                                                                                                                                                                                                                                                                                                                                                                                                                                                                                                                                                                                                                                                                                                                                                                                                                                                                                                                                                                                                                                                                                                                                                                                                                                                                                                                                                                                                                                                                                                                                                                                                                                                                                                                                                                                                                                                                                                                                                                                                                                                                                                                                                                                                                                                                                                                                                                                                                                                                                                                                                                                                                                                                                                                                                                                                                                                                                                                                                                                                                                                                                                                                                                                                                                                                                                                                                                                                                                                                                                                                                                                                                                                                                                                                                                                                                                                                                                                                                                                                                                                                                                                                                                                                                                                                                                                                                                                                                                                                                                                                                                                                                                                                                                                                                                                                                                                                                                                                                                                                                                                                                                                                                                                                                                                                                                                                                                                                                                                                                                                                                                                                                                                                                                                                                                                                                                                                                                                                                                                                                                                                                                                                                                                                                                                                                                                                                                                                                                                                                                                                                                                                                                                                                                                                                                                                                                                                                                                                                                                                                                                                                                                                                                                                                                                                                                                                                                                                                                                                                                                                                                                                                                                                                                                                                                                                                                                                                                                                                                                                                                                                                                                                                                                                                                                                                                                                                                                                                                                                                                                                                                                                                                                                                                                                                                                                                                                                                                                                                                                                                                                                                                                                                                                                                                                                                                                                                                                                                                                                                                                                                                                                                                                                                                                                                                                                                                                                                                                                                                                                                                                                                                                                                                                                                                                                                                                                                                                                                                                                                                                                                                                                                                                                                                                                                                                                                                                                                                                                                                                                                                                                                                                                                                                                                                                                                                                                                                                                                                                                                                                                                                                                                                                                                                                                                                                                                                                                                                                                                                                                                                                                                                                                                                                                                                                                                                                                                                                                                                                                                                                                                                                                                                                                                                                                                                                                                                                                                                                                                                                                                                                                                                                                                                                                                                                                                                                                                                                                                                                                                                                                                                                                                                                                                                                                                                                                                                                                                                                                                                                                                                                                                                                                                                                                                                                                                                                                                                                                                                                                                                                                                                                                                                                                                                                                                                                                                                                                                                                                                                                                                                                                                                                                                                                                                                                                                                                                                                                                                                                                                                                                                                                                                                                                                                                                                                                                                                                                                                                                                                                                                                                                                                                                                                                                                                                                                                                                                                                                                                                                                                                                                                                                                                                                                                                                                                                                                                                                                                                                                                                                                                                                                                                                                                                                                                                                                                                                                                                                                                                                                                                                                                                                                                                                                                                                                                                                                                                                                                                                                                                                                                                                                                                                                                                                                                                                                                                                                                                                                                                                                                                                                                                                                                                                                                                                                                                                                                                                                                                                                                                                                                                                                                                                                                                                                                                                                                                                                                                                                                                                                                                                                                                                                                                                                                                                                                                                                                                                                                                                                                                                                                                                                                                                                                                                                                                                                                                                                                                                                                                                                                                                                                                                                                                                                                                                                                                                                                                                                                                                                                                                                                                                                                                                                                                                                                                                                                                                                                                                                                                                                         "n" >>,
      << "C", "A", "F", "U+00C9" >>, << "x" >> }

MappingsData == { NaN } \cup { Str(x) : x \in Concats(Words, MaxWords) }

InitMappings ==
    /\ OthersIdle
    /\ data \in MappingsData
    /\ category = Unset
    /\ expense = NoExpense
    /\ core_df = NoFrame
    /\ snapshots = <<>>
    /\ core_pc = "mappings"

SpecMappings == InitMappings /\ [][NextMappings]_vars

\* The text, lowercased, holds a keyword of the k-th category of the
\* declaration order.
Occurs(text, k) ==
    \E c \in 1..Len(categories) :
        /\ categories[c][1] = all_category[k]
        /\ \E keyword \in categories[c][2] : Contains(Lower(text), keyword)

\* C21: mappings(data) returns the first category of the declaration order
\* (FOOD, GREENFOOD, ..., SHOPPING, MISC) that has a keyword occurring in
\* the lowercased data, and 'MISC' when no keyword of any category occurs,
\* as for empty and whitespace-only data.
C21_FirstCategoryInOrder ==
    (core_pc = "mapped" /\ IsStr(data)) =>
        LET hits == { k \in 1..Len(all_category) : Occurs(data.s, k) }
        IN  /\ IsStr(category)
            /\ hits = {} => category.s = << "M", "I", "S", "C" >>
            /\ hits # {} =>
                 /\ category.s \in { all_category[k] : k \in hits }
                 /\ \A k \in hits, j \in 1..Len(all_category) :
                        all_category[j] = category.s => j <= k
            /\ data.s \in { <<>>, << " " >>, << " ", " " >> } => category.s = << "M",
                                                                                 "I",
                                                                                 "S",
                                                                                 "C" >>

\* 'Uber sport LIDL' holds keywords of three categories and is filed under
\* the first of them, FOOD.
C21_Witness ==
    /\ core_pc = "mapped"
    /\ data = Str(<< "U", "b", "e", "r", "s", "p", "o", "r", "t", "L", "I",
                     "D", "L" >>)
    /\ category = Str(<< "F", "O", "O", "D" >>)

(***************************************************************************)
(* Expense: the category and the importance of an item (data_loader.py)    *)
(***************************************************************************)
\* The members of the enum CATEGORY.
CATEGORY ==
    { "TRANSPORTATION", "CAR", "EATING_OUT", "FOOD", "CLOTHES", "TRAVEL",
      "SHOPPING", "APARTMENT", "SELF_DEVELOPMENT", "ANIMALS",
      "ENTERTAINMENT", "INVESTMENTS", "CARE", "SELF_DESTRUCTION", "MISC" }

\* The members of the enum IMPORTANCE.
IMPORTANCE == { "SHOULDNT_HAVE", "NICE_TO_HAVE", "HAVE_TO_HAVE", "ESSENTIAL" }

\* The if statements of _determine_category_and_importance in their order:
\* the words tested with 'in item', and the pair returned.
ExpenseRules ==
    << << { << "a", "p", "a", "r", "t", "m", "e", "n", "t" >>, << "b", "i",
                                                                  "l", "l",
                                                                  "s" >>, << "r",
                                                                                                                                                                                                                                     "e",
                                                                                                                                                                                                                                     "n",
                                                                                                                                                                                                                                     "o",
                                                                                                                                                                                                                                     "v",
                                                                                                                                                                                                                                     "a",
                                                                                                                                                                                                                                     "t",
                                                                                                                                                                                                                                     "i",
                                                                                                                                                                                                                                     "o",
                                                                                                                                                                                                                                     "n" >> }, "APARTMENT", "ESSENTIAL" >>,
       << { << "f", "o", "o", "d" >>, << "g", "r", "e", "e", "n", "f", "o",
                                         "o", "d" >> }, "FOOD", "ESSENTIAL" >>,
       << { << "f", "u", "e", "l" >>, << "r", "e", "p", "a", "i", "r", "s" >>, << "c",
                                                                                  "a",
                                                                                  "r" >>, << "l",
                                                                                                                                                                                                                                                                           "e",
                                                                                                                                                                                                                                                                           "a",
                                                                                                                                                                                                                                                                           "s",
                                                                                                                                                                                                                                                                           "i",
                                                                                                                                                                                                                                                                           "n",
                                                                                                                                                                                                                                                                           "g" >> }, "CAR", "HAVE_TO_HAVE" >>,
       << { << "t", "r", "a", "n", "s", "p", "o", "r", "t", "a", "t", "i",
               "o", "n" >> }, "TRANSPORTATION", "HAVE_TO_HAVE" >>,
       << { << "g", "r", "o", "c", "e", "r", "i", "e", "s" >>, << "c", "o",
                                                                  "f", "f",
                                                                  "e", "e" >>, << "c",
                                                                                                                                                                                                                                          "a",
                                                                                                                                                                                                                                          "t",
                                                                                                                                                                                                                                          "e",
                                                                                                                                                                                                                                          "r",
                                                                                                                                                                                                                                          "i",
                                                                                                                                                                                                                                          "n",
                                                                                                                                                                                                                                          "g" >> },
          "EATING_OUT", "NICE_TO_HAVE" >>,
       << { << "a", "n", "i", "m", "a", "l", "s" >> }, "ANIMALS", "HAVE_TO_HAVE" >>,
       << { << "s", "e", "l", "f", "_", "d", "e", "v", "e", "l", "o", "p",
               "m", "e", "n", "t" >>, << "b",
                                                                                                                    "o",
                                                                                                                    "o",
                                                                                                                    "k" >> },
          "SELF_DEVELOPMENT", "NICE_TO_HAVE" >>,
       << { << "c", "l", "o", "t", "h", "e", "s" >>, << "j", "e", "w", "e",
                                                        "l", "r", "y" >> }, "CLOTHES", "NICE_TO_HAVE" >>,
       << { << "e", "n", "t", "e", "r", "t", "a", "i", "n", "m", "e", "n",
               "t" >>, << "s",
                                                                                                     "u",
                                                                                                     "b",
                                                                                                     "s",
                                                                                                     "c",
                                                                                                     "r",
                                                                                                     "i",
                                                                                                     "p",
                                                                                                     "t",
                                                                                                     "i",
                                                                                                     "o",
                                                                                                     "n",
                                                                                                     "s" >>, << "p",
                                                                                                                                                                                                                                                                                                                                                                                                                                                                                                                                                                                                                                                                                                                                                                                                                                                                                                                                                                                                                                                                                                                                                                                                                                                                                                                                                                                                                                        "c",
                                                                                                                                                                                                                                                                                                                                                                                                                                                                                                                                                                                                                                                                                                                                                                                                                                                                                                                                                                                                                                                                                                                                                                                                                                                                                                                                                                                                                                        "g",
                                                                                                                                                                                                                                                                                                                                                                                                                                                                                                                                                                                                                                                                                                                                                                                                                                                                                                                                                                                                                                                                                                                                                                                                                                                                                                                                                                                                                                        "a",
                                                                                                                                                                                                                                                                                                                                                                                                                                                                                                                                                                                                                                                                                                                                                                                                                                                                                                                                                                                                                                                                                                                                                                                                                                                                                                                                                                                                                                        "m",
                                                                                                                                                                                                                                                                                                                                                                                                                                                                                                                                                                                                                                                                                                                                                                                                                                                                                                                                                                                                                                                                                                                                                                                                                                                                                                                                                                                                                                        "e",
                                                                                                                                                                                                                                                                                                                                                                                                                                                                                                                                                                                                                                                                                                                                                                                                                                                                                                                                                                                                                                                                                                                                                                                                                                                                                                                                                                                                                                        "s" >> },
          "ENTERTAINMENT", "NICE_TO_HAVE" >>,
       << { << "s", "h", "o", "p", "p", "i", "n", "g" >>, << "e", "l", "e",
                                                             "c", "t", "r",
                                                             "o", "n", "i",
                                                             "c" >> }, "SHOPPING", "NICE_TO_HAVE" >>,
       << { << "i", "n", "v", "e", "s", "t", "m", "e", "n", "t" >> }, "INVESTMENTS", "NICE_TO_HAVE" >>,
       << { << "p", "h", "a", "r", "m", "a", "c", "y" >>, << "c", "o", "s",
                                                             "m", "e", "t",
                                                             "i", "c", "s" >>, << "i",
                                                                                                                                                                                                                                          "n",
                                                                                                                                                                                                                                          "s",
                                                                                                                                                                                                                                          "u",
                                                                                                                                                                                                                                          "r",
                                                                                                                                                                                                                                          "a",
                                                                                                                                                                                                                                          "n",
                                                                                                                                                                                                                                          "c",
                                                                                                                                                                                                                                          "e" >>, << "s",
                                                                                                                                                                                                                                                                                                                                                                                                                                                                                                                                                                                                                                                                                                                                                                                                                                                                                                                                                                                                                                                                                                                                                                                                                                                                                                                                                                                                                                                                                                                                                                                                                                                                                                                                                                                                                                                                                                                                                                                                                                                                                                                                                                                                                                             "p",
                                                                                                                                                                                                                                                                                                                                                                                                                                                                                                                                                                                                                                                                                                                                                                                                                                                                                                                                                                                                                                                                                                                                                                                                                                                                                                                                                                                                                                                                                                                                                                                                                                                                                                                                                                                                                                                                                                                                                                                                                                                                                                                                                                                                                                             "o",
                                                                                                                                                                                                                                                                                                                                                                                                                                                                                                                                                                                                                                                                                                                                                                                                                                                                                                                                                                                                                                                                                                                                                                                                                                                                                                                                                                                                                                                                                                                                                                                                                                                                                                                                                                                                                                                                                                                                                                                                                                                                                                                                                                                                                                             "r",
                                                                                                                                                                                                                                                                                                                                                                                                                                                                                                                                                                                                                                                                                                                                                                                                                                                                                                                                                                                                                                                                                                                                                                                                                                                                                                                                                                                                                                                                                                                                                                                                                                                                                                                                                                                                                                                                                                                                                                                                                                                                                                                                                                                                                                             "t" >>, << "b",
                                                                                                                                                                                                                                                                                                                                                                                                                                                                                                                                                                                                                                                                                                                                                                                                                                                                                                                                                                                                                                                                                                                                                                                                                                                                                                                                                                                                                                                                                                                                                                                                                                                                                                                                                                                                                                                                                                                                                                                                                                                                                                                                                                                                                                                                                                                                                                                                                                                                                                                                                                                                                                                                                                                                                                                                                                                                                                                                                                                                                                                                                                                                                                                                                                                                                                                                                                                                                                                                                                                                                                                                                                                                                                                                                                                                                                                                                                                                                                                                                                                                                                                                                                                                                                                                                                                                                                                                                                                                                                                                                                                                                                                                                                                                                                                                                                                                                                                                                                                                                                                                                                                                                                                                                                                                                                                                                                                                                                                                                                                                                                                                                                                                                                                                                                                                                                                                                                                                                                                                                                                                                                                                                                                                                                                                                                                                                                                                                                                                                                                                                                                                                                                                                                                                                                                                                                                                                                                                                                                                                                                                                                                                                                                                                                                                                                                                                                                                                                                                                                                                                                                                                                                                                                                                                                                                                                                                                                                                                                                                                                                                                                                                                                                                                                                                                                                                                                                                                                                                                                                                                                                                                                                                                                                                                                                                                                                                                                                                                                                                                                                                                                                                                                                                                                                                                                                                                                                                                                                                                                                                                                                                                                                                                                                                                                                                                                                                                                                                                                                                                                                                                                                                                                                                                                                                                                                                                                                                                                                                                                                                                                                                                                                                                                                                                                                                                                                                                                                                                                                                                                                                                                                                                                                                                                                                "i",
                                                                                                                                                                                                                                                                                                                                                                                                                                                                                                                                                                                                                                                                                                                                                                                                                                                                                                                                                                                                                                                                                                                                                                                                                                                                                                                                                                                                                                                                                                                                                                                                                                                                                                                                                                                                                                                                                                                                                                                                                                                                                                                                                                                                                                                                                                                                                                                                                                                                                                                                                                                                                                                                                                                                                                                                                                                                                                                                                                                                                                                                                                                                                                                                                                                                                                                                                                                                                                                                                                                                                                                                                                                                                                                                                                                                                                                                                                                                                                                                                                                                                                                                                                                                                                                                                                                                                                                                                                                                                                                                                                                                                                                                                                                                                                                                                                                                                                                                                                                                                                                                                                                                                                                                                                                                                                                                                                                                                                                                                                                                                                                                                                                                                                                                                                                                                                                                                                                                                                                                                                                                                                                                                                                                                                                                                                                                                                                                                                                                                                                                                                                                                                                                                                                                                                                                                                                                                                                                                                                                                                                                                                                                                                                                                                                                                                                                                                                                                                                                                                                                                                                                                                                                                                                                                                                                                                                                                                                                                                                                                                                                                                                                                                                                                                                                                                                                                                                                                                                                                                                                                                                                                                                                                                                                                                                                                                                                                                                                                                                                                                                                                                                                                                                                                                                                                                                                                                                                                                                                                                                                                                                                                                                                                                                                                                                                                                                                                                                                                                                                                                                                                                                                                                                                                                                                                                                                                                                                                                                                                                                                                                                                                                                                                                                                                                                                                                                                                                                                                                                                                                                                                                                                                                                                                                                                "k",
                                                                                                                                                                                                                                                                                                                                                                                                                                                                                                                                                                                                                                                                                                                                                                                                                                                                                                                                                                                                                                                                                                                                                                                                                                                                                                                                                                                                                                                                                                                                                                                                                                                                                                                                                                                                                                                                                                                                                                                                                                                                                                                                                                                                                                                                                                                                                                                                                                                                                                                                                                                                                                                                                                                                                                                                                                                                                                                                                                                                                                                                                                                                                                                                                                                                                                                                                                                                                                                                                                                                                                                                                                                                                                                                                                                                                                                                                                                                                                                                                                                                                                                                                                                                                                                                                                                                                                                                                                                                                                                                                                                                                                                                                                                                                                                                                                                                                                                                                                                                                                                                                                                                                                                                                                                                                                                                                                                                                                                                                                                                                                                                                                                                                                                                                                                                                                                                                                                                                                                                                                                                                                                                                                                                                                                                                                                                                                                                                                                                                                                                                                                                                                                                                                                                                                                                                                                                                                                                                                                                                                                                                                                                                                                                                                                                                                                                                                                                                                                                                                                                                                                                                                                                                                                                                                                                                                                                                                                                                                                                                                                                                                                                                                                                                                                                                                                                                                                                                                                                                                                                                                                                                                                                                                                                                                                                                                                                                                                                                                                                                                                                                                                                                                                                                                                                                                                                                                                                                                                                                                                                                                                                                                                                                                                                                                                                                                                                                                                                                                                                                                                                                                                                                                                                                                                                                                                                                                                                                                                                                                                                                                                                                                                                                                                                                                                                                                                                                                                                                                                                                                                                                                                                                                                                                                                                "e" >> },
          "CARE", "NICE_TO_HAVE" >>,
       << { << "t", "r", "a", "v", "e", "l" >> }, "TRAVEL", "NICE_TO_HAVE" >>,
       << { << "a", "l", "c", "o", "h", "o", "l" >>, << "f", "a", "s", "t",
                                                        "f", "o", "o", "d" >> }, "SELF_DESTRUCTION", "SHOULDNT_HAVE" >> >>

\* The last return of _determine_category_and_importance.
ExpenseDefault == << "MISC", "NICE_TO_HAVE" >>

\* The if statements from the k-th on, item being self.item.lower().
RECURSIVE RuleFrom(_, _)
RuleFrom(item, k) ==
    IF k > Len(ExpenseRules) THEN ExpenseDefault
    ELSE IF \E word \in ExpenseRules[k][1] : Contains(item, word)
         THEN << ExpenseRules[k][2], ExpenseRules[k][3] >>
         ELSE RuleFrom(item, k + 1)

\* _determine_category_and_importance of an Expense with a str item.
determine_category_and_importance(item) == RuleFrom(Lower(item), 1)

\* Expense.__init__: the fields are stored, then category and importance;
\* an item without lower() (an empty cell read as NaN) ends it with
\* AttributeError.
Construct(e) ==
    IF IsStr(e.item)
    THEN [ state |-> "constructed", month |-> e.month, year |-> e.year,
           item |-> e.item, price |-> e.price,
           category |-> determine_category_and_importance(e.item.s)[1],
           importance |-> determine_category_and_importance(e.item.s)[2] ]
    ELSE [ state |-> "AttributeError", month |-> e.month, year |-> e.year,
           item |-> e.item, price |-> e.price ]

\* Expense(month, year, item, price)
NewExpense ==
    /\ core_pc = "expense"
    /\ expense.state = "new"
    /\ expense' = Construct(expense)
    /\ core_pc' = "constructed"
    /\ UNCHANGED << data, category, core_df, snapshots >>
    /\ UNCHANGED << locationVars, readerVars, mainVars, sharedVars >>

NextExpense == NewExpense

(***************************************************************************)
(* Items: the category names in lower and upper case, the items of the     *)
(* tests, the empty item and an empty cell                                 *)
(***************************************************************************)
CategoryItems == { Lower(all_category[k]) : k \in 1..Len(all_category) }

ExpenseItems ==
    { NaN }
      \cup { Str(x) : x \in CategoryItems }
      \cup { Str(all_category[k]) : k \in 1..Len(all_category) }
      \cup { Str(<<>>), Str(<< "u", "n", "k", "n", "o", "w", "n", " ", "e",
                               "x", "p", "e", "n", "s", "e" >>), Str(<< "r",
                                                                                                                                                    "a",
                                                                                                                                                    "n",
                                                                                                                                                    "d",
                                                                                                                                                    "o",
                                                                                                                                                    "m",
                                                                                                                                                    " ",
                                                                                                                                                    "p",
                                                                                                                                                    "u",
                                                                                                                                                    "r",
                                                                                                                                                    "c",
                                                                                                                                                    "h",
                                                                                                                                                    "a",
                                                                                                                                                    "s",
                                                                                                                                                    "e" >>),
             Str(<< "u", "n", "i", "d", "e", "n", "t", "i", "f", "i", "e",
                    "d", " ", "i", "t", "e", "m" >>), Str(<< "p",
                                                                                                                                        "h",
                                                                                                                                        "a",
                                                                                                                                        "r",
                                                                                                                                        "m",
                                                                                                                                        "a",
                                                                                                                                        "c",
                                                                                                                                        "y",
                                                                                                                                        " ",
                                                                                                                                        "i",
                                                                                                                                        "t",
                                                                                                                                        "e",
                                                                                                                                        "m",
                                                                                                                                        "s" >>),
             Str(<< "a", "p", "a", "r", "t", "m", "e", "n", "t", ",", " ",
                    "r", "e", "n", "t", " ", "&", " ", "u", "t", "i", "l",
                    "i", "t", "i", "e", "s", " ", "(", "2", "0", "2", "3",
                    ")" >>),
             Str(<< "S", "c", "a", "r", "f" >>), Str(<< "t", "o", "y", "s",
                                                        " ", "f", "o", "r",
                                                        " ", "k", "i", "d",
                                                        "s" >>), Str(<< "p",
                                                                                                                                                                                                                                                                                                            "c",
                                                                                                                                                                                                                                                                                                            " ",
                                                                                                                                                                                                                                                                                                            "g",
                                                                                                                                                                                                                                                                                                            "a",
                                                                                                                                                                                                                                                                                                            "m",
                                                                                                                                                                                                                                                                                                            "e",
                                                                                                                                                                                                                                                                                                            "s" >>) }

ExpensePrices == { 100, -100 }

InitExpense ==
    /\ OthersIdle
    /\ data = None
    /\ category = Unset
    /\ expense \in { [ state |-> "new", month |-> 1, year |-> 2023,
                       item |-> i, price |-> p ] :
                     i \in ExpenseItems, p \in ExpensePrices }
    /\ core_df = NoFrame
    /\ snapshots = <<>>
    /\ core_pc = "expense"

SpecExpense == InitExpense /\ [][NextExpense]_vars

\* The item, lowercased, holds none of the words the Expense class tests.
NoCategoryKeyword(item) ==
    \A k \in 1..Len(ExpenseRules) :
        \A word \in ExpenseRules[k][1] : ~Contains(Lower(item), word)

\* C24: an Expense whose item contains none of the category keywords, the
\* empty item included, has category MISC and importance NEEDS_REVIEW.
C24_UnmatchedNeedsReview ==
    ( /\ expense.state = "constructed"
      /\ NoCategoryKeyword(expense.item.s) ) =>
        /\ expense.category = "MISC"
        /\ expense.importance = "NEEDS_REVIEW"

\* C25: for every category name of all_category other than MISC, an Expense
\* whose item is that name in lowercase has a category other than MISC.
C25_EveryCategoryHandled ==
    ( /\ expense.state = "constructed"
      /\ expense.item.s \in CategoryItems
      /\ expense.item.s # << "m", "i", "s", "c" >> ) =>
        expense.category # "MISC"

(***************************************************************************)
(* float: a price is m * 10^e with m not a multiple of 10 (or 0), the      *)
(* decimal that str() prints for it; NaN is the empty cell                 *)
(***************************************************************************)
Float(m, e) == [t |-> "float", nan |-> FALSE, m |-> m, e |-> e]

FloatNaN == [t |-> "float", nan |-> TRUE, m |-> 0, e |-> 0]

\* The float of m * 10^e.
RECURSIVE Normalise(_, _)
Normalise(m, e) ==
    IF m = 0 THEN Float(0, 0)
    ELSE IF m % 10 = 0 THEN Normalise(m \div 10, e + 1)
    ELSE Float(m, e)

Abs(n) == IF n < 0 THEN -n ELSE n

DigitChars == << "0", "1", "2", "3", "4", "5", "6", "7", "8", "9" >>

\* The decimal digits of n >= 0.
RECURSIVE IntDigits(_)
IntDigits(n) ==
    IF n < 10 THEN << DigitChars[n + 1] >>
    ELSE IntDigits(n \div 10) \o << DigitChars[(n % 10) + 1] >>

\* The number a string of digits writes.
RECURSIVE DigitsValue(_)
DigitsValue(ds) ==
    IF ds = <<>> THEN 0
    ELSE 10 * DigitsValue(SubSeq(ds, 1, Len(ds) - 1))
           + (CHOOSE d \in 0..9 : DigitChars[d + 1] = ds[Len(ds)])

Zeros(n) == [i \in 1..n |-> "0"]

\* Fixed notation of the digits D scaled by 10^e.
FixedNotation(D, e) ==
    IF e >= 0 THEN D \o Zeros(e) \o << ".", "0" >>
    ELSE IF Len(D) + e > 0
         THEN SubSeq(D, 1, Len(D) + e) \o << "." >> \o SubSeq(D, Len(D) + e + 1, Len(D))
         ELSE << "0", "." >> \o Zeros(-(Len(D) + e)) \o D

\* Exponent notation of the digits D with decimal exponent x: at least two
\* exponent digits after the sign.
ExponentNotation(D, x) ==
    << D[1] >> \o (IF Len(D) > 1 THEN << "." >> \o Tail(D) ELSE <<>>)
        \o << "e" >> \o (IF x < 0 THEN << "-" >> ELSE << "+" >>)
        \o (IF Abs(x) < 10 THEN << "0" >> ELSE <<>>) \o IntDigits(Abs(x))

\* str(x) of a float: the shortest digits, in exponent notation when the
\* decimal exponent is below -4 or at least 16.
FloatStr(f) ==
    IF f.nan THEN << "n", "a", "n" >>
    ELSE IF f.m = 0 THEN << "0", ".", "0" >>
    ELSE (IF f.m < 0 THEN << "-" >> ELSE <<>>)
            \o (IF \/ Len(IntDigits(Abs(f.m))) - 1 + f.e < -4
                   \/ Len(IntDigits(Abs(f.m))) - 1 + f.e >= 16
                THEN ExponentNotation(IntDigits(Abs(f.m)),
                                      Len(IntDigits(Abs(f.m))) - 1 + f.e)
                ELSE FixedNotation(IntDigits(Abs(f.m)), f.e))

AllDigits(ds) == \A i \in 1..Len(ds) : IsDigit(ds[i])

\* An optional sign and digits: the exponent of a float literal.
SignedValue(ds) ==
    IF ds # <<>> /\ ds[1] = "-" THEN -DigitsValue(Tail(ds))
    ELSE IF ds # <<>> /\ ds[1] = "+" THEN DigitsValue(Tail(ds))
    ELSE DigitsValue(ds)

IsSignedDigits(ds) ==
    /\ ds # <<>>
    /\ IF ds[1] \in { "-", "+" } THEN Tail(ds) # <<>> /\ AllDigits(Tail(ds))
       ELSE AllDigits(ds)

\* The parts of an unsigned float literal: digits before and after the
\* point and the exponent, lower case.
MantissaOf(u) == IF Find(u, << "e" >>, 1) = 0 THEN u ELSE SubSeq(u, 1, Find(u, << "e" >>, 1) - 1)

ExponentOf(u) == IF Find(u, << "e" >>, 1) = 0 THEN << "0" >> ELSE From(u, Find(u, << "e" >>, 1) + 1)

WholeOf(mt) == IF Find(mt, << "." >>, 1) = 0 THEN mt ELSE SubSeq(mt, 1, Find(mt, << "." >>, 1) - 1)

FractionOf(mt) == IF Find(mt, << "." >>, 1) = 0 THEN <<>> ELSE From(mt, Find(mt, << "." >>, 1) + 1)

IsFloatLiteral(u) ==
    /\ AllDigits(WholeOf(MantissaOf(u)))
    /\ AllDigits(FractionOf(MantissaOf(u)))
    /\ WholeOf(MantissaOf(u)) \o FractionOf(MantissaOf(u)) # <<>>
    /\ IsSignedDigits(ExponentOf(u))

UnsignedFloat(u, sign) ==
    Normalise(sign * DigitsValue(WholeOf(MantissaOf(u)) \o FractionOf(MantissaOf(u))),
              SignedValue(ExponentOf(u)) - Len(FractionOf(MantissaOf(u))))

\* float(s) of a str: blanks around it are ignored, 'nan' is NaN, and what
\* is no float literal raises ValueError.
ParseFloat(s) ==
    LET u == Lower(Strip(s))
    IN  IF u \in { << "n", "a", "n" >>, << "+", "n", "a", "n" >>, << "-",
                                                                     "n",
                                                                     "a",
                                                                     "n" >> } THEN FloatNaN
        ELSE IF u # <<>> /\ u[1] = "-" /\ IsFloatLiteral(Tail(u))
             THEN UnsignedFloat(Tail(u), -1)
        ELSE IF u # <<>> /\ u[1] = "+" /\ IsFloatLiteral(Tail(u))
             THEN UnsignedFloat(Tail(u), 1)
        ELSE IF IsFloatLiteral(u) THEN UnsignedFloat(u, 1)
        ELSE Raised("ValueError")
\* The dict replacements of clean_date, in insertion order: old, new.
replacements ==
    << << << "p", "u", "r", "c", "h", "a", "s", "e", " ", "i", "n", " ",
             "t", "e", "r", "m", "i", "n", "a", "l", " ", "-", " ", "m",
             "o", "b", "i", "l", "e", " ", "c", "o", "d", "e" >>,
          << "t", "e", "r", "m", "i", "n", "a", "l", " ", "p", "u", "r",
             "c", "h", "a", "s", "e" >> >>,
       << << "w", "e", "b", " ", "p", "a", "y", "m", "e", "n", "t", " ",
             "-", " ", "m", "o", "b", "i", "l", "e", " ", "c", "o", "d",
             "e" >>,
          << "w", "e", "b", " ", "p", "a", "y", "m", "e", "n", "t" >> >>,
       << << "t", "r", "a", "n", "s", "f", "e", "r", " ", "f", "r", "o",
             "m", " ", "a", "c", "c", "o", "u", "n", "t" >>,
          << "a", "c", "c", "o", "u", "n", "t", " ", "t", "r", "a", "n",
             "s", "f", "e", "r" >> >>,
       << << "t", "r", "a", "n", "s", "f", "e", "r", " ", "t", "o", " ",
             "a", "c", "c", "o", "u", "n", "t" >>,
          << "a", "c", "c", "o", "u", "n", "t", " ", "d", "e", "p", "o",
             "s", "i", "t" >> >>,
       << << "r", "e", "c", "i", "p", "i", "e", "n", "t", " ", "a", "c",
             "c", "o", "u", "n", "t" >>,
          << "r", "e", "c", "i", "p", "i", "e", "n", "t" >> >>,
       << << "p", "h", "o", "n", "e", " ", "n", "u", "m", "b", "e", "r" >>,
          << "p", "h", "o", "n", "e" >> >>,
       << << "l", "o", "c", "a", "t", "i", "o", "n", ":", " ", "a", "d",
             "d", "r", "e", "s", "s" >>,
          << "l", "o", "c", "a", "t", "i", "o", "n" >> >>,
       << << "t", "i", "t", "l", "e" >>,
          << "d", "e", "s", "c", "r", "i", "p", "t", "i", "o", "n" >> >>,
       << << "p", "a", "y", "e", "r", " ", "r", "e", "f", "e", "r", "e",
             "n", "c", "e", "s" >>,
          << "r", "e", "f", "e", "r", "e", "n", "c", "e", "s" >> >>,
       << << "o", "r", "l", "e", "n" >>,
          << "O", "r", "l", "e", "n", " ", "g", "a", "s", " ", "s", "t",
             "a", "t", "i", "o", "n" >> >>,
       << << "s", "t", "a", "r", "b", "u", "c", "k", "s" >>,
          << "S", "t", "a", "r", "b", "u", "c", "k", "s", " ", "c", "o",
             "f", "f", "e", "e", " ", "s", "h", "o", "p" >> >>,
       << << "m", "c", "d" >>,
          << "M", "c", "D", "o", "n", "a", "l", "d", "s", " ", "r", "e",
             "s", "t", "a", "u", "r", "a", "n", "t" >> >>,
       << << "n", "e", "t", "f", "l", "i", "x" >>,
          << "N", "e", "t", "f", "l", "i", "x", " ", "s", "u", "b", "s",
             "c", "r", "i", "p", "t", "i", "o", "n" >> >>,
       << << "i", "n", "v", "e", "s", "t", "m", "e", "n", "t", " ", "p",
             "l", "a", "t", "f", "o", "r", "m", " ", "d", "e", "p", "o",
             "s", "i", "t" >>,
          << "i", "n", "v", "e", "s", "t", "m", "e", "n", "t", " ", "d",
             "e", "p", "o", "s", "i", "t" >> >>,
       << << "a", "m", "a", "z", "o", "n" >>,
          << "A", "m", "a", "z", "o", "n", " ", "s", "h", "o", "p", "p",
             "i", "n", "g" >> >>,
       << << "p", "i", "o", "t", "r", "k", "o", "w", "s", "k", "a", " ",
             "1", "5", "7", "a" >>,
          << "B", "i", "e", "d", "r", "o", "n", "k", "a", " ", "-", " ",
             "P", "i", "o", "t", "r", "k", "o", "w", "s", "k", "a", " ",
             "1", "5", "7", "a" >> >>,
       << << "d", "r", "e", "w", "n", "o", "w", "s", "k", "a", " ", "5",
             "8", "a" >>,
          << "M", "a", "n", "u", "f", "a", "k", "t", "u", "r", "a", " ",
             "-", " ", "D", "r", "e", "w", "n", "o", "w", "s", "k", "a",
             " ", "5", "8", "a" >> >>,
       << << "p", "a", "b", "i", "a", "n", "i", "c", "k", "a", " ", "2",
             "4", "5" >>,
          << "P", "o", "r", "t", " ", "U+00C5", "U+00C3", "U+00B3", "d",
             "U+00C5", "U+00BA", " ", "-", " ", "P", "a", "b", "i", "a",
             "n", "i", "c", "k", "a", " ", "2", "4", "5" >> >>,
       << << "m", "a", "r", "a", "t", "o", "n", "s", "k", "a", " ", "2",
             "4" >>,
          << "R", "e", "t", "k", "i", "n", "i", "a", " ", "M", "a", "l",
             "l", " ", "-", " ", "M", "a", "r", "a", "t", "o", "U+00C5",
             "U+201E", "s", "k", "a", " ", "2", "4" >> >> >>

(***************************************************************************)
(* clean_date (data_core.py): a DataFrame is its column labels in order    *)
(* and its rows, each row a record of cells                                *)
(***************************************************************************)
DataFrame(columns, rows) == [columns |-> columns, rows |-> rows, error |-> "none"]

\* The call ended with the exception e.
Failed(frame, e) == [frame EXCEPT !.error = e]

\* The labels of a frame.
Labels(frame) == { frame.columns[i] : i \in 1..Len(frame.columns) }

\* The .str accessor exists on a column of dtype object: one with a str
\* cell, or with no cell at all; a column of empty cells alone is float64.
HasStrAccessor(frame, label) ==
    \/ frame.rows = <<>>
    \/ \E i \in 1..Len(frame.rows) : IsStr(frame.rows[i][label])

\* The loop over replacements.items() from its k-th entry on, on one cell.
RECURSIVE ReplaceFrom(_, _)
ReplaceFrom(text, k) ==
    IF k > Len(replacements) THEN text
    ELSE ReplaceFrom(Replace(text, replacements[k][1], replacements[k][2]),
                     k + 1)

\* Series.str.replace on one cell: an empty cell stays empty.
CleanCell(v) == IF IsStr(v) THEN Str(ReplaceFrom(v.s, 1)) ELSE NaN

\* clean_date(df): df itself, its 'data' column rewritten.
clean_date(frame) ==
    IF "data" \notin Labels(frame) THEN Failed(frame, "KeyError")
    ELSE IF ~HasStrAccessor(frame, "data")
         THEN Failed(frame, "AttributeError")
    ELSE [frame EXCEPT !.rows =
            [i \in 1..Len(frame.rows) |->
                [frame.rows[i] EXCEPT !.data = CleanCell(@)]]]

\* How often clean_date is applied to its own result.
MaxPasses == 2

\* clean_date(df) on its own; df is changed in place and returned.
CleanDate ==
    /\ core_pc = "clean_date"
    /\ core_df.error = "none"
    /\ Len(snapshots) < 1 + MaxPasses
    /\ core_df' = clean_date(core_df)
    /\ snapshots' = Append(snapshots, core_df')
    /\ UNCHANGED << data, category, expense, core_pc >>
    /\ UNCHANGED << locationVars, readerVars, mainVars, sharedVars >>

NextCleanDate == CleanDate

(***************************************************************************)
(* Frames of one or two rows whose descriptions are joined from the        *)
(* phrases clean_date rewrites                                             *)
(***************************************************************************)
Phrases ==
    { << "p", "h", "o", "n", "e" >>, << " ", "n", "u", "m", "b", "e", "r" >>, << "t",
                                                                                 "i",
                                                                                 "t",
                                                                                 "l",
                                                                                 "e" >>, << "o",
                                                                                                                                                                                                                                                                                                                                                                                                                                                    "r",
                                                                                                                                                                                                                                                                                                                                                                                                                                                    "l",
                                                                                                                                                                                                                                                                                                                                                                                                                                                    "e",
                                                                                                                                                                                                                                                                                                                                                                                                                                                    "n" >>, << "m",
                                                                                                                                                                                                                                                                                                                                                                                                                                                                                                                                                                                                                                                                                                                                                                                                                                                                                                                                                                                                                                                                                                                                                                                                                                                                                                                                                                                                                                                                                                                                                                                                                                                                                                                                                                                                                                                                                                                                                                                                                                                                                                                                                                                                                                                                                                   "c",
                                                                                                                                                                                                                                                                                                                                                                                                                                                                                                                                                                                                                                                                                                                                                                                                                                                                                                                                                                                                                                                                                                                                                                                                                                                                                                                                                                                                                                                                                                                                                                                                                                                                                                                                                                                                                                                                                                                                                                                                                                                                                                                                                                                                                                                                                                   "d" >>, << "p",
                                                                                                                                                                                                                                                                                                                                                                                                                                                                                                                                                                                                                                                                                                                                                                                                                                                                                                                                                                                                                                                                                                                                                                                                                                                                                                                                                                                                                                                                                                                                                                                                                                                                                                                                                                                                                                                                                                                                                                                                                                                                                                                                                                                                                                                                                                                                                                                                                                                                                                                                                                                                                                                                                                                                                                                                                                                                                                                                                                                                                                                                                                                                                                                                                                                                                                                                                                                                                                                                                                                                                                                                                                                                                                                                                                                                                                                                                                                                                                                                                                                                                                                                                                                                                                                                                                                                                                                                                                                                                                                                                                                                                                                                                                                                                                                                                                                                                                                                                                                                                                                                                                                                                                                                                                                                                                                                                                                                                                                                                                                                                                                                                                                                                                                                                                                                                                                                                                                                                                                                                                                                                                                                                                                                                                                                                                                                                                                                                                                                                                                                                                                                                                                                                                                                                                                                                                                                                                                              "a",
                                                                                                                                                                                                                                                                                                                                                                                                                                                                                                                                                                                                                                                                                                                                                                                                                                                                                                                                                                                                                                                                                                                                                                                                                                                                                                                                                                                                                                                                                                                                                                                                                                                                                                                                                                                                                                                                                                                                                                                                                                                                                                                                                                                                                                                                                                                                                                                                                                                                                                                                                                                                                                                                                                                                                                                                                                                                                                                                                                                                                                                                                                                                                                                                                                                                                                                                                                                                                                                                                                                                                                                                                                                                                                                                                                                                                                                                                                                                                                                                                                                                                                                                                                                                                                                                                                                                                                                                                                                                                                                                                                                                                                                                                                                                                                                                                                                                                                                                                                                                                                                                                                                                                                                                                                                                                                                                                                                                                                                                                                                                                                                                                                                                                                                                                                                                                                                                                                                                                                                                                                                                                                                                                                                                                                                                                                                                                                                                                                                                                                                                                                                                                                                                                                                                                                                                                                                                                                                              "y",
                                                                                                                                                                                                                                                                                                                                                                                                                                                                                                                                                                                                                                                                                                                                                                                                                                                                                                                                                                                                                                                                                                                                                                                                                                                                                                                                                                                                                                                                                                                                                                                                                                                                                                                                                                                                                                                                                                                                                                                                                                                                                                                                                                                                                                                                                                                                                                                                                                                                                                                                                                                                                                                                                                                                                                                                                                                                                                                                                                                                                                                                                                                                                                                                                                                                                                                                                                                                                                                                                                                                                                                                                                                                                                                                                                                                                                                                                                                                                                                                                                                                                                                                                                                                                                                                                                                                                                                                                                                                                                                                                                                                                                                                                                                                                                                                                                                                                                                                                                                                                                                                                                                                                                                                                                                                                                                                                                                                                                                                                                                                                                                                                                                                                                                                                                                                                                                                                                                                                                                                                                                                                                                                                                                                                                                                                                                                                                                                                                                                                                                                                                                                                                                                                                                                                                                                                                                                                                                              "e",
                                                                                                                                                                                                                                                                                                                                                                                                                                                                                                                                                                                                                                                                                                                                                                                                                                                                                                                                                                                                                                                                                                                                                                                                                                                                                                                                                                                                                                                                                                                                                                                                                                                                                                                                                                                                                                                                                                                                                                                                                                                                                                                                                                                                                                                                                                                                                                                                                                                                                                                                                                                                                                                                                                                                                                                                                                                                                                                                                                                                                                                                                                                                                                                                                                                                                                                                                                                                                                                                                                                                                                                                                                                                                                                                                                                                                                                                                                                                                                                                                                                                                                                                                                                                                                                                                                                                                                                                                                                                                                                                                                                                                                                                                                                                                                                                                                                                                                                                                                                                                                                                                                                                                                                                                                                                                                                                                                                                                                                                                                                                                                                                                                                                                                                                                                                                                                                                                                                                                                                                                                                                                                                                                                                                                                                                                                                                                                                                                                                                                                                                                                                                                                                                                                                                                                                                                                                                                                                              "r" >>,
      << " ", "r", "e", "f", "e", "r", "e", "n", "c", "e", "s" >>, << " " >>, << "x" >> }

CleanTexts == Concats(Phrases, MaxWords)

\* A row as the tests of clean_date build it.
TestRow(v) == [data |-> v, price |-> Str(<< "-", "1", "0", ".", "0" >>), month |-> 1, year |-> 2023]

TestColumns == << "data", "price", "month", "year" >>

CleanFrames ==
    { DataFrame(TestColumns, << >>),
      DataFrame(TestColumns, << TestRow(NaN) >>),
      DataFrame(TestColumns, << TestRow(NaN), TestRow(Str(<< "t", "i", "t",
                                                             "l", "e" >>)) >>),
      DataFrame(<< "price", "month", "year" >>,
                << [price |-> Str(<< "-", "1", "0", ".", "0" >>), month |-> 1, year |-> 2023] >>) }
      \cup { DataFrame(TestColumns, << TestRow(Str(x)) >>) : x \in CleanTexts }

InitCleanDate ==
    /\ OthersIdle
    /\ data = None
    /\ category = Unset
    /\ expense = NoExpense
    /\ core_df \in CleanFrames
    /\ snapshots = << core_df >>
    /\ core_pc = "clean_date"

SpecCleanDate == InitCleanDate /\ [][NextCleanDate]_vars

\* C23: clean_date is idempotent: for every DataFrame with a string 'data'
\* column, clean_date applied to the result of clean_date gives the same
\* DataFrame.
C23_CleanDateIdempotent ==
    ( /\ Len(snapshots) >= 3
      /\ snapshots[3].error = "none" ) =>
        snapshots[3] = snapshots[2]

(***************************************************************************)
(* process_dataframe (data_core.py), statement by statement                *)
(***************************************************************************)
\* desired_columns
desired_columns == << "month", "year", "price", "category", "data" >>

\* The marker removed from the category column.
CATEGORY_MARKER ==
    << "U+00F0", "U+0178", "U+201D", "U+2013", "U+00F0", "U+0178", "U+201D",
       "U+2013", "U+00F0", "U+0178", "U+201D", "U+2013" >>

\* df[label] = cells: the column is rewritten, or added as the last one.
SetColumn(frame, label, cells) ==
    [ columns |-> IF label \in Labels(frame) THEN frame.columns
                  ELSE Append(frame.columns, label),
      rows |-> [i \in 1..Len(frame.rows) |->
                  [c \in Labels(frame) \cup { label } |->
                      IF c = label THEN cells[i] ELSE frame.rows[i][c]]],
      error |-> "none" ]

\* The cells of a column, top to bottom.
Column(frame, label) == [i \in 1..Len(frame.rows) |-> frame.rows[i][label]]

\* The exception a column of results holds, "none" if none.
RaisedIn(cells) ==
    IF \E i \in 1..Len(cells) : ~(cells[i].t \in { "str", "float" })
    THEN cells[CHOOSE i \in 1..Len(cells) :
                 /\ ~(cells[i].t \in { "str", "float" })
                 /\ \A j \in 1..(i - 1) : cells[j].t \in { "str", "float" }].t
    ELSE "none"

\* The frame with the column set, or the call ended by the exception the
\* cells hold.
WithColumn(frame, label, cells) ==
    IF RaisedIn(cells) = "none" THEN SetColumn(frame, label, cells)
    ELSE Failed(frame, RaisedIn(cells))

\* float(x) for a cell of the price column.
AsFloat(v) == IF IsStr(v) THEN ParseFloat(v.s) ELSE v

\* x > 0
Positive(f) == ~f.nan /\ f.m > 0

\* str(x) with every '-' removed.
PriceText(f) == Str(Replace(FloatStr(f), << "-" >>, <<>>))

\* line 51: df = clean_date(df)
CleanDescriptions ==
    /\ core_pc = "process_dataframe"
    /\ core_df' = clean_date(core_df)
    /\ core_pc' = IF core_df'.error = "none" THEN "cleaned" ELSE "raised"
    /\ UNCHANGED << data, category, expense, snapshots >>
    /\ UNCHANGED << locationVars, readerVars, mainVars, sharedVars >>

\* line 54: df["category"] = df["data"].map(mappings)
MapCategories ==
    /\ core_pc = "cleaned"
    /\ core_df' = WithColumn(core_df, "category",
                     [i \in 1..Len(core_df.rows) |->
                         mappings(core_df.rows[i].data)])
    /\ core_pc' = IF core_df'.error = "none" THEN "categorised" ELSE "raised"
    /\ UNCHANGED << data, category, expense, snapshots >>
    /\ UNCHANGED << locationVars, readerVars, mainVars, sharedVars >>

\* line 57: df["price"] = df["price"].astype(float)
PriceAsFloat ==
    /\ core_pc = "categorised"
    /\ core_df' =
         IF "price" \notin Labels(core_df) THEN Failed(core_df, "KeyError")
         ELSE WithColumn(core_df, "price",
                 [i \in 1..Len(core_df.rows) |->
                     AsFloat(core_df.rows[i].price)])
    /\ core_pc' = IF core_df'.error = "none" THEN "float" ELSE "raised"
    /\ UNCHANGED << data, category, expense, snapshots >>
    /\ UNCHANGED << locationVars, readerVars, mainVars, sharedVars >>

\* line 58: df.loc[df["price"] > 0, "price"] = np.nan
RemoveIncome ==
    /\ core_pc = "float"
    /\ core_df' = SetColumn(core_df, "price",
                     [i \in 1..Len(core_df.rows) |->
                         IF Positive(core_df.rows[i].price) THEN FloatNaN
                         ELSE core_df.rows[i].price])
    /\ core_pc' = "expenses"
    /\ UNCHANGED << data, category, expense, snapshots >>
    /\ UNCHANGED << locationVars, readerVars, mainVars, sharedVars >>

\* line 61: df["price"] = df["price"].astype(str).str.replace("-", "")
PriceAsStr ==
    /\ core_pc = "expenses"
    /\ core_df' = SetColumn(core_df, "price",
                     [i \in 1..Len(core_df.rows) |->
                         PriceText(core_df.rows[i].price)])
    /\ core_pc' = "text"
    /\ UNCHANGED << data, category, expense, snapshots >>
    /\ UNCHANGED << locationVars, readerVars, mainVars, sharedVars >>

\* line 65: df = df[desired_columns]
ReorderColumns ==
    /\ core_pc = "text"
    /\ core_df' =
         IF \E i \in 1..Len(desired_columns) :
                desired_columns[i] \notin Labels(core_df)
         THEN Failed(core_df, "KeyError")
         ELSE [ columns |-> desired_columns,
                rows |-> [i \in 1..Len(core_df.rows) |->
                            [c \in Labels(DataFrame(desired_columns, <<>>)) |->
                                core_df.rows[i][c]]],
                error |-> "none" ]
    /\ core_pc' = IF core_df'.error = "none" THEN "ordered" ELSE "raised"
    /\ UNCHANGED << data, category, expense, snapshots >>
    /\ UNCHANGED << locationVars, readerVars, mainVars, sharedVars >>

\* df["price"] != "nan", one row.
PriceIsText(row) == row.price # Str(<< "n", "a", "n" >>)

\* line 68: df = df[df["price"] != "nan"].reset_index(drop=True)
DropNaN ==
    /\ core_pc = "ordered"
    /\ core_df' = [core_df EXCEPT !.rows = SelectSeq(@, PriceIsText)]
    /\ core_pc' = "dropped"
    /\ UNCHANGED << data, category, expense, snapshots >>
    /\ UNCHANGED << locationVars, readerVars, mainVars, sharedVars >>

\* lines 71 and 73: the marker removed from the category column; return df
RemoveMarkers ==
    /\ core_pc = "dropped"
    /\ core_df' = SetColumn(core_df, "category",
                     [i \in 1..Len(core_df.rows) |->
                         Str(Replace(core_df.rows[i].category.s,
                                     CATEGORY_MARKER, <<>>))])
    /\ core_pc' = "returned"
    /\ UNCHANGED << data, category, expense, snapshots >>
    /\ UNCHANGED << locationVars, readerVars, mainVars, sharedVars >>

NextProcess ==
    \/ CleanDescriptions
    \/ MapCategories
    \/ PriceAsFloat
    \/ RemoveIncome
    \/ PriceAsStr
    \/ ReorderColumns
    \/ DropNaN
    \/ RemoveMarkers

(***************************************************************************)
(* Frames of up to MaxRows transactions: expenses, incomes, a zero, a tiny *)
(* amount, an empty price cell, prices as text and as numbers              *)
(***************************************************************************)
MaxRows == 2

Transaction(v, p, mo, yr) == [data |-> v, price |-> p, month |-> mo, year |-> yr]

Transactions ==
    { Transaction(Str(<< "L", "I", "D", "L", " ", "t", "i", "t", "l", "e" >>), Str(<< "-",
                                                                                      "1",
                                                                                      "0",
                                                                                      ".",
                                                                                      "0" >>), 1, 2023),
      Transaction(Str(<< "U", "b", "e", "r" >>), Str(<< "-", "2", "0", ".",
                                                        "5", "0" >>), 12, 2024),
      Transaction(Str(<< "s", "a", "l", "a", "r", "y" >>), Str(<< "5", "0",
                                                                  "0", "0" >>), 1, 2023),
      Transaction(Str(<< "o", "r", "l", "e", "n" >>), Float(-9999, -2), 2, 2023),
      Transaction(Str(<< "r", "e", "f", "u", "n", "d" >>), Float(499, -2), 3, 2023),
      Transaction(Str(<< "k", "i", "n", "o" >>), Float(0, 0), 4, 2023),
      Transaction(Str(<< "f", "e", "e" >>), Str(<< "-", "0", ".", "0", "0",
                                                   "0", "0", "1" >>), 5, 2023),
      Transaction(Str(<< "x" >>), Float(-25, -6), 6, 2023),
      Transaction(Str(<< "a", "p", "t", "e", "k", "a" >>), FloatNaN, 7, 2023),
      Transaction(Str(<< "t", "a", "x", "i" >>), Str(<< "-", "1", ",", "5",
                                                        "0" >>), 8, 2023),
      Transaction(NaN, Str(<< "-", "3", ".", "0" >>), 9, 2023) }

\* The row with the balance column of a bank statement.
WithBalance(row) ==
    [c \in DOMAIN row \cup { "balance" } |->
        IF c = "balance" THEN Float(1, 2) ELSE row[c]]

StatementColumns == << "year", "month", "balance", "price", "data" >>

TransactionLists == UNION { [1..n -> Transactions] : n \in 0..MaxRows }

ProcessFrames ==
    { DataFrame(TestColumns, rows) : rows \in TransactionLists }
      \cup { DataFrame(StatementColumns,
                       [i \in 1..Len(rows) |-> WithBalance(rows[i])]) :
               rows \in TransactionLists }

InitProcess ==
    /\ OthersIdle
    /\ data = None
    /\ category = Unset
    /\ expense = NoExpense
    /\ core_df \in ProcessFrames
    /\ snapshots = << core_df >>
    /\ core_pc = "process_dataframe"

SpecProcess == InitProcess /\ [][NextProcess]_vars

\* The number a price cell of the argument stands for.
PriceOf(row) == AsFloat(row.price)

\* The price of the row is not greater than 0.
NotIncome(row) == ~Positive(PriceOf(row))

\* C22: process_dataframe removes exactly the rows whose price is greater
\* than 0, keeps every other row in its order with its price replaced by
\* the absolute value of the original price (strictly positive for every
\* negative input), keeps month and year, and returns the columns in the
\* order month, year, price, category, data.
C22_ExpensesKept ==
    core_pc = "returned" =>
        LET kept == SelectSeq(snapshots[1].rows, NotIncome)
        IN  /\ core_df.columns = << "month", "year", "price", "category", "data" >>
            /\ Len(core_df.rows) = Len(kept)
            /\ \A i \in 1..Len(kept) :
                  /\ i <= Len(core_df.rows)
                  /\ core_df.rows[i].month = kept[i].month
                  /\ core_df.rows[i].year = kept[i].year
                  /\ IsStr(core_df.rows[i].price)
                  /\ ParseFloat(core_df.rows[i].price.s)
                       = Float(Abs(PriceOf(kept[i]).m), PriceOf(kept[i]).e)
                  /\ PriceOf(kept[i]).m < 0 =>
                       ParseFloat(core_df.rows[i].price.s).m > 0
====
